---- MODULE Spec2Model ----
(***************************************************************************)
(* Verification model of comedy_clipper.                                    *)
(*                                                                         *)
(*  - YOLOPoseProcessor._process_chunk (src/yolo_pose_processor.py): the   *)
(*    per-chunk tracker with the pending/active/dormant/exited life cycle. *)
(*  - CentroidTracker.update (src/person_tracker.py), whose matching is    *)
(*    repeated verbatim in EnhancedPersonTracker.update.                   *)
(*  - YOLOPoseProcessor.process_video: parallel chunks, consolidation.     *)
(*  - SegmentFilter.filter (src/python_backend/filters/segment_filter.py). *)
(*  - CacheManager (src/python_backend/core/cache_manager.py).             *)
(*                                                                         *)
(* Time is counted in ticks of half a second, so that every duration of    *)
(* the code (1.5 s, 2.0 s, 10.0 s, the sampling interval) is an integer.   *)
(* Coordinates are pixels; a bounding box is <<x1, y1, x2, y2>>.  Centres  *)
(* are kept doubled (x1 + x2) so that no division is needed, and every     *)
(* comparison against a fraction of the frame is cross-multiplied.         *)
(* Payload that no transition reads (keypoints, detection confidences,     *)
(* pose_metadata) is left out.                                             *)
(***************************************************************************)
EXTENDS Integers, Sequences, FiniteSets, TLC

VARIABLES
    cfg,               \* per-run settings: sampling interval and stability durations (ticks)
    pc,                \* "running" while frames are read, "done" after the end-of-chunk pass
    frame_num,         \* number of sampled frames processed so far
    detected_persons,  \* raw detections of the last sampled frame (after the quality filter)
    tracked_persons,   \* sequence of TrackedPerson records, person_id = index - 1
    next_person_id,
    events,            \* the chunk's PoseEvent list
    objects,           \* CentroidTracker: object_id -> centroid
    disappeared,       \* CentroidTracker: object_id -> frames disappeared
    next_object_id,
    max_disappeared,
    input_centroids    \* CentroidTracker: centroids handed to the last update

yoloVars == <<cfg, pc, frame_num, detected_persons, tracked_persons, next_person_id, events>>
ctVars == <<objects, disappeared, next_object_id, max_disappeared, input_centroids>>

VARIABLES
    futures,           \* process_video: chunk index -> [status, events] of the submitted future
    chunk_index,       \* index of the chunk the worker state above belongs to
    all_events,        \* process_video: the consolidated event list
    video_pc           \* "collecting" while futures are awaited, "sorted" after the sort

VARIABLES
    filter_config,     \* SegmentFilter.config
    segments,          \* argument of the last filter call
    video_duration,    \* argument of the last filter call (NoDuration for None)
    buffered,          \* value returned by the last filter call
    filter_calls       \* number of filter calls made so far

VARIABLES
    cache_files,       \* CacheManager: cache_key -> pickled DetectionCache of <cache_key>.pkl
    metadata,          \* CacheManager.metadata['entries']: cache_key -> entry
    clock,             \* time.time()
    last_call          \* the last CacheManager call and the value it returned

VARIABLES
    managers,          \* CacheManager instances sharing the directory: id -> self.metadata
    index_file         \* contents of cache_metadata.json

VARIABLES
    current_state,         \* ContextualTransitionRules: a PerformanceState value
    state_start_time,      \* seconds
    state_duration,        \* seconds
    current_segment,       \* NoSegment or [start_time, start_state]
    performance_segments,  \* the recorded segments
    person_roles,          \* person_id -> "host" or "comedian"
    last_update            \* arguments of the last update_state call, and its ordinal

VARIABLES
    person_states,         \* ConfidenceBasedDetector: person_id -> state_info
    confidence_call        \* the last calculate_* call and the value it returned

VARIABLES
    zone_type,             \* FlexibleZoneConfig: "rectangle", "polygon" or "ellipse"
    stage_bounds,          \* NoBounds or the bounds of the stage zone
    zone_query,            \* the last point queried, with the answers of both tests
    safe_zone,             \* NoBounds or the bounds of the safe zone
    danger_zone,           \* NoBounds or the bounds of the danger zone
    position_history,      \* the samples recorded for adaptive learning
    auto_calibrated,       \* the auto_calibrated flag
    zone_call              \* the last auto_calibrate_zones or load_config call and its outcome

VARIABLES
    analysis               \* UnifiedClipper._analyze_transitions: the locals of the loop

pvVars == <<futures, chunk_index, all_events, video_pc>>
sfVars == <<filter_config, segments, video_duration, buffered, filter_calls>>
cmVars == <<cache_files, metadata, clock, last_call>>
ixVars == <<managers, index_file>>
\* the components that have a specification of their own further down
crVars == <<current_state, state_start_time, state_duration, current_segment,
           performance_segments, person_roles, last_update>>
cfVars == <<person_states, confidence_call>>
znVars == <<zone_type, stage_bounds, zone_query, safe_zone, danger_zone,
           position_history, auto_calibrated, zone_call>>
taVars == <<analysis>>
restVars == <<ixVars, crVars, cfVars, znVars, taVars>>
vars == <<cfg, pc, frame_num, detected_persons, tracked_persons, next_person_id, events,
          objects, disappeared, next_object_id, max_disappeared, input_centroids,
          futures, chunk_index, all_events, video_pc,
          filter_config, segments, video_duration, buffered, filter_calls,
          cache_files, metadata, clock, last_call,
          managers, index_file,
          current_state, state_start_time, state_duration, current_segment,
          performance_segments, person_roles, last_update,
          person_states, confidence_call,
          zone_type, stage_bounds, zone_query, safe_zone, danger_zone,
          position_history, auto_calibrated, zone_call,
          analysis>>

\* the components a specification does not exercise stay in these states
PvIdle ==
    /\ futures = <<>>
    /\ chunk_index = 0
    /\ all_events = <<>>
    /\ video_pc = "sorted"

SfIdle ==
    /\ filter_config = <<>>
    /\ segments = <<>>
    /\ video_duration = 0
    /\ buffered = <<>>
    /\ filter_calls = 0

CmIdle ==
    /\ cache_files = <<>>
    /\ metadata = <<>>
    /\ clock = 0
    /\ last_call = [op |-> "none"]

IxIdle ==
    /\ managers = <<>>
    /\ index_file = [kind |-> "missing"]

NoSegment == [none |-> TRUE]

\* ContextualTransitionRules.__init__
CrInit ==
    /\ current_state = "empty_stage"
    /\ state_start_time = 0
    /\ state_duration = 0
    /\ current_segment = NoSegment
    /\ performance_segments = <<>>
    /\ person_roles = <<>>
    /\ last_update = [person_count |-> 0, identities |-> <<>>, timestamp |-> 0, call |-> 0]

\* ConfidenceBasedDetector.__init__
CfInit ==
    /\ person_states = <<>>
    /\ confidence_call = [op |-> "none", calls |-> 0]

NoBounds == [none |-> TRUE]

\* FlexibleZoneConfig.__init__
ZnInit ==
    /\ zone_type = "rectangle"
    /\ stage_bounds = NoBounds
    /\ zone_query = [op |-> "none"]
    /\ safe_zone = NoBounds
    /\ danger_zone = NoBounds
    /\ position_history = <<>>
    /\ auto_calibrated = FALSE
    /\ zone_call = [op |-> "none", calls |-> 0]

\* no transition analysis is running
TaIdle == analysis = [pc |-> "idle"]

RestIdle == IxIdle /\ CrInit /\ CfInit /\ ZnInit /\ TaIdle

----------------------------------------------------------------------------
(* Bounds of the model *)

MaxFrames == 7
MaxPersons == 3
MaxObjects == 4

----------------------------------------------------------------------------
(* Program constants *)

FrameWidth == 100
FrameHeight == 100

\* EXIT_EDGE_THRESHOLD = 0.20 and AUDIENCE_ZONE_THRESHOLD = 0.25, in percent
EXIT_EDGE_THRESHOLD == 20
AUDIENCE_ZONE_THRESHOLD == 25

\* durations in ticks of 0.5 s
ENTER_STABILITY_SECONDS == 3
EXIT_STABILITY_SECONDS == 4
DORMANT_TIMEOUT_SECONDS == 20

\* mutant: single-performer selection switched off
PRIMARY_PERFORMER_ONLY_off == FALSE

PRIMARY_PERFORMER_ONLY == TRUE
VALID_ENTRY_EDGES == {"left", "right"}

----------------------------------------------------------------------------
(* Geometry of bounding boxes *)

Max2(a, b) == IF a >= b THEN a ELSE b
Min2(a, b) == IF a <= b THEN a ELSE b

\* doubled centre of a box
CenterX2(b) == b[1] + b[3]
CenterY2(b) == b[2] + b[4]

get_bbox_area(b) == (b[3] - b[1]) * (b[4] - b[2])

\* area of the intersection, 0 when the boxes are disjoint
Intersection(b1, b2) ==
    LET x1 == Max2(b1[1], b2[1])
        y1 == Max2(b1[2], b2[2])
        x2 == Min2(b1[3], b2[3])
        y2 == Min2(b1[4], b2[4])
    IN  IF x2 < x1 \/ y2 < y1 THEN 0 ELSE (x2 - x1) * (y2 - y1)

\* scores are exact fractions <<numerator, denominator>>, denominator > 0
FracGt(a, b) == a[1] * b[2] > b[1] * a[2]

calculate_iou(b1, b2) ==
    LET inter == Intersection(b1, b2)
        union == get_bbox_area(b1) + get_bbox_area(b2) - inter
    IN  IF union > 0 THEN <<inter, union>> ELSE <<0, 1>>

\* squared distance between the doubled centres (4 x the squared centre distance)
calculate_center_distance(b1, b2) ==
    (CenterX2(b1) - CenterX2(b2)) * (CenterX2(b1) - CenterX2(b2))
  + (CenterY2(b1) - CenterY2(b2)) * (CenterY2(b1) - CenterY2(b2))

get_entry_edge(b) ==
    IF 100 * CenterX2(b) < 2 * FrameWidth * EXIT_EDGE_THRESHOLD THEN "left"
    ELSE IF 100 * CenterX2(b) > 2 * FrameWidth * (100 - EXIT_EDGE_THRESHOLD) THEN "right"
    ELSE IF 100 * CenterY2(b) < 2 * FrameHeight * EXIT_EDGE_THRESHOLD THEN "top"
    ELSE IF 100 * CenterY2(b) > 2 * FrameHeight * (100 - EXIT_EDGE_THRESHOLD) THEN "bottom"
    ELSE "none"

is_in_audience_zone(b) ==
    100 * CenterY2(b) > 2 * FrameHeight * (100 - AUDIENCE_ZONE_THRESHOLD)

\* mutant: only the left edge counts as an exit edge
is_valid_exit_left_only(b) ==
    100 * CenterX2(b) < 2 * FrameWidth * EXIT_EDGE_THRESHOLD

is_valid_exit(b) ==
    \/ 100 * CenterX2(b) < 2 * FrameWidth * EXIT_EDGE_THRESHOLD
    \/ 100 * CenterX2(b) > 2 * FrameWidth * (100 - EXIT_EDGE_THRESHOLD)
    \/ 100 * CenterY2(b) < 2 * FrameHeight * EXIT_EDGE_THRESHOLD
    \/ 100 * CenterY2(b) > 2 * FrameHeight * (100 - EXIT_EDGE_THRESHOLD)

----------------------------------------------------------------------------
(* TrackedPerson *)

TrackedPerson(person_id, bbox, timestamp, entry_edge) ==
    [ person_id |-> person_id,
      last_bbox |-> bbox,
      frames_missing |-> 0,
      state |-> "pending",
      last_seen_timestamp |-> timestamp,
      first_seen_timestamp |-> timestamp,
      consecutive_detections |-> 1,
      entry_edge |-> entry_edge,
      enter_event_emitted |-> FALSE ]

PersonUpdate(p, bbox, timestamp) ==
    [ p EXCEPT !.last_bbox = bbox,
               !.frames_missing = 0,
               !.consecutive_detections = @ + 1,
               !.last_seen_timestamp = timestamp ]

mark_missing(p) ==
    [ p EXCEPT !.frames_missing = @ + 1,
               !.consecutive_detections = 0 ]

PoseEvent(timestamp, event_type, person_id, bbox) ==
    [ timestamp |-> timestamp, event_type |-> event_type,
      person_id |-> person_id, bbox |-> bbox ]

----------------------------------------------------------------------------
(* _match_detection_to_person *)

\* 0.3 * frame_width, compared on doubled centres: 4 d^2 < (0.6 W)^2
DormantNear(bbox, p) ==
    100 * calculate_center_distance(bbox, p.last_bbox) < 36 * FrameWidth * FrameWidth

\* mutant: a nearby dormant person gets no score boost
MatchScore_no_dormant_boost(bbox, p) ==
    LET iou == calculate_iou(bbox, p.last_bbox)
    IN  IF p.state = "dormant"
        THEN IF DormantNear(bbox, p) THEN iou ELSE <<iou[1], 2 * iou[2]>>
        ELSE IF p.state = "pending"
        THEN <<11 * iou[1], 10 * iou[2]>>
        ELSE iou

MatchScore(bbox, p) ==
    LET iou == calculate_iou(bbox, p.last_bbox)
    IN  IF p.state = "dormant"
        THEN IF DormantNear(bbox, p)
             THEN (IF FracGt(iou, <<1, 5>>) THEN iou ELSE <<1, 5>>)
             ELSE <<iou[1], 2 * iou[2]>>
        ELSE IF p.state = "pending"
        THEN <<11 * iou[1], 10 * iou[2]>>
        ELSE iou

\* mutant: the loop does not skip exited persons
RECURSIVE MatchFrom_no_skip(_, _, _, _)
MatchFrom_no_skip(bbox, tp, i, best) ==
    IF i > Len(tp) THEN best[1]
    ELSE LET score == MatchScore(bbox, tp[i])
         IN  IF FracGt(score, best[2]) /\ FracGt(score, <<3, 20>>)
             THEN MatchFrom_no_skip(bbox, tp, i + 1, <<tp[i].person_id, score>>)
             ELSE MatchFrom_no_skip(bbox, tp, i + 1, best)

\* the loop over tracked_persons in dictionary (= id) order; best = <<id or -1, score>>
RECURSIVE MatchFrom(_, _, _, _)
MatchFrom(bbox, tp, i, best) ==
    IF i > Len(tp) THEN best[1]
    ELSE IF tp[i].state = "exited" THEN MatchFrom(bbox, tp, i + 1, best)
    ELSE LET score == MatchScore(bbox, tp[i])
         IN  IF FracGt(score, best[2]) /\ FracGt(score, <<3, 20>>)
             THEN MatchFrom(bbox, tp, i + 1, <<tp[i].person_id, score>>)
             ELSE MatchFrom(bbox, tp, i + 1, best)

\* mutant: only persons seen in the previous sampled frame are candidates
match_detection_to_person_visible_only(bbox, tp) ==
    MatchFrom(bbox,
              [i \in 1..Len(tp) |-> IF tp[i].frames_missing > 0
                                    THEN [tp[i] EXCEPT !.state = "exited"] ELSE tp[i]],
              1, <<-1, <<0, 1>>>>)

\* returns the matched person_id, or -1 for None
match_detection_to_person(bbox, tp) == MatchFrom(bbox, tp, 1, <<-1, <<0, 1>>>>)

----------------------------------------------------------------------------
(* One sampled frame of _process_chunk *)

RECURSIVE FilterAudience(_)
FilterAudience(dets) ==
    IF dets = <<>> THEN <<>>
    ELSE IF is_in_audience_zone(Head(dets)) THEN FilterAudience(Tail(dets))
    ELSE <<Head(dets)>> \o FilterAudience(Tail(dets))

\* index of the first detection of maximal area: what a stable descending sort puts first
RECURSIVE LargestFrom(_, _, _)
LargestFrom(dets, i, best) ==
    IF i > Len(dets) THEN best
    ELSE IF get_bbox_area(dets[i]) > get_bbox_area(dets[best])
         THEN LargestFrom(dets, i + 1, i)
         ELSE LargestFrom(dets, i + 1, best)

SelectPrimary(dets) ==
    IF PRIMARY_PERFORMER_ONLY /\ Len(dets) > 1
    THEN <<dets[LargestFrom(dets, 2, 1)]>>
    ELSE dets

\* mutant: a re-activated person is promoted again although its enter event was emitted
MatchedBranch_repromote(st, bbox, ts, mid) ==
    LET i == mid + 1
        old == st.tp[i]
        p1 == PersonUpdate(old, bbox, ts)
        p2 == IF old.state = "dormant"
              THEN [p1 EXCEPT !.state = "pending", !.first_seen_timestamp = ts]
              ELSE p1
        promote == /\ p2.state = "pending"
                   /\ ts - p2.first_seen_timestamp >= cfg.enter_stability
        p3 == IF promote
              THEN [p2 EXCEPT !.state = "active", !.enter_event_emitted = TRUE]
              ELSE p2
    IN  [ st EXCEPT !.tp = [st.tp EXCEPT ![i] = p3],
                    !.cur = st.cur \cup {mid},
                    !.ev = IF promote
                           THEN Append(st.ev, PoseEvent(p3.first_seen_timestamp, "enter",
                                                        mid, p3.last_bbox))
                           ELSE st.ev ]

\* st = [tp, nid, ev, cur]: tracked_persons, next_person_id, events, current_frame_persons
MatchedBranch(st, bbox, ts, mid) ==
    LET i == mid + 1
        old == st.tp[i]
        p1 == PersonUpdate(old, bbox, ts)
        p2 == IF old.state = "dormant"
              THEN [p1 EXCEPT !.state = "pending", !.first_seen_timestamp = ts]
              ELSE p1
        promote == /\ p2.state = "pending"
                   /\ ~p2.enter_event_emitted
                   /\ ts - p2.first_seen_timestamp >= cfg.enter_stability
        p3 == IF promote
              THEN [p2 EXCEPT !.state = "active", !.enter_event_emitted = TRUE]
              ELSE p2
    IN  [ st EXCEPT !.tp = [st.tp EXCEPT ![i] = p3],
                    !.cur = st.cur \cup {mid},
                    !.ev = IF promote
                           THEN Append(st.ev, PoseEvent(p3.first_seen_timestamp, "enter",
                                                        mid, p3.last_bbox))
                           ELSE st.ev ]

NewPersonBranch(st, bbox, ts) ==
    LET entry_edge == get_entry_edge(bbox)
    IN  IF entry_edge # "none" /\ entry_edge \notin VALID_ENTRY_EDGES
        THEN st
        ELSE [ st EXCEPT !.tp = Append(st.tp, TrackedPerson(st.nid, bbox, ts, entry_edge)),
                         !.nid = st.nid + 1,
                         !.cur = st.cur \cup {st.nid} ]

RECURSIVE DetectionLoop(_, _, _)
DetectionLoop(dets, ts, st) ==
    IF dets = <<>> THEN st
    ELSE LET bbox == Head(dets)
             mid == match_detection_to_person(bbox, st.tp)
         IN  DetectionLoop(Tail(dets), ts,
                           IF mid # -1 THEN MatchedBranch(st, bbox, ts, mid)
                                       ELSE NewPersonBranch(st, bbox, ts))

\* the loop over persons that were not detected this frame
RECURSIVE MissingLoop(_, _, _)
MissingLoop(st, ts, i) ==
    IF i > Len(st.tp) THEN st
    ELSE LET p == st.tp[i]
         IN  IF p.person_id \in st.cur \/ p.state = "exited"
             THEN MissingLoop(st, ts, i + 1)
             ELSE LET m == mark_missing(p)
                      missing_duration == ts - m.last_seen_timestamp
                  IN  IF m.state = "pending" /\ ~m.enter_event_emitted
                      THEN MissingLoop(
                             [st EXCEPT !.tp[i] =
                                 IF missing_duration > cfg.enter_stability
                                 THEN [m EXCEPT !.state = "exited"] ELSE m],
                             ts, i + 1)
                      ELSE IF missing_duration >= cfg.exit_stability
                      THEN IF is_valid_exit(m.last_bbox)
                           THEN MissingLoop(
                                  [st EXCEPT !.tp[i] = [m EXCEPT !.state = "exited"],
                                             !.ev = Append(st.ev,
                                                 PoseEvent(m.last_seen_timestamp, "exit",
                                                           m.person_id, m.last_bbox))],
                                  ts, i + 1)
                           ELSE MissingLoop(
                                  [st EXCEPT !.tp[i] = [m EXCEPT !.state = "dormant"]],
                                  ts, i + 1)
                      ELSE MissingLoop([st EXCEPT !.tp[i] = m], ts, i + 1)

\* cleanup of dormant persons that timed out
RECURSIVE DormantCleanup(_, _, _)
DormantCleanup(st, ts, i) ==
    IF i > Len(st.tp) THEN st
    ELSE LET p == st.tp[i]
         IN  IF p.state = "dormant" /\ ts - p.last_seen_timestamp > cfg.dormant_timeout
             THEN DormantCleanup(
                    [st EXCEPT !.tp[i] = [p EXCEPT !.state = "exited"],
                               !.ev = IF p.enter_event_emitted
                                      THEN Append(st.ev,
                                               PoseEvent(p.last_seen_timestamp, "exit",
                                                         p.person_id, p.last_bbox))
                                      ELSE st.ev],
                    ts, i + 1)
             ELSE DormantCleanup(st, ts, i + 1)

\* the state after the sampled frame with raw detections dets at timestamp ts
FrameResult(dets, ts) ==
    LET selected == SelectPrimary(FilterAudience(dets))
        st0 == [tp |-> tracked_persons, nid |-> next_person_id, ev |-> events, cur |-> {}]
        st1 == DetectionLoop(selected, ts, st0)
        st2 == MissingLoop(st1, ts, 1)
    IN  DormantCleanup(st2, ts, 1)

GlobalTimestamp == cfg.start_time + frame_num * cfg.dt

ProcessFrame(dets) ==
    /\ pc = "running"
    /\ frame_num < cfg.max_frames
    /\ LET st == FrameResult(dets, GlobalTimestamp)
       IN  /\ st.nid <= MaxPersons
           /\ tracked_persons' = st.tp
           /\ next_person_id' = st.nid
           /\ events' = st.ev
    /\ detected_persons' = dets
    /\ frame_num' = frame_num + 1
    /\ UNCHANGED <<cfg, pc>>

\* mutant: the end-of-chunk pass forgets the dormant persons
RECURSIVE EndOfChunkEvents_active_only(_, _, _)
EndOfChunkEvents_active_only(tp, i, ev) ==
    IF i > Len(tp) THEN ev
    ELSE LET p == tp[i]
         IN  IF p.enter_event_emitted /\ p.state = "active" /\ p.frames_missing > 0
             THEN EndOfChunkEvents_active_only(tp, i + 1,
                      Append(ev, PoseEvent(p.last_seen_timestamp, "exit",
                                           p.person_id, p.last_bbox)))
             ELSE EndOfChunkEvents_active_only(tp, i + 1, ev)

\* persons still tracked when the chunk's frames are exhausted
RECURSIVE EndOfChunkEvents(_, _, _)
EndOfChunkEvents(tp, i, ev) ==
    IF i > Len(tp) THEN ev
    ELSE LET p == tp[i]
         IN  IF ~p.enter_event_emitted THEN EndOfChunkEvents(tp, i + 1, ev)
             ELSE IF p.state = "dormant" \/ (p.state = "active" /\ p.frames_missing > 0)
             THEN EndOfChunkEvents(tp, i + 1,
                      Append(ev, PoseEvent(p.last_seen_timestamp, "exit",
                                           p.person_id, p.last_bbox)))
             ELSE EndOfChunkEvents(tp, i + 1, ev)

EndOfChunk ==
    /\ pc = "running"
    /\ frame_num >= cfg.min_frames
    /\ events' = EndOfChunkEvents(tracked_persons, 1, events)
    /\ pc' = "done"
    /\ UNCHANGED <<cfg, frame_num, detected_persons, tracked_persons, next_person_id>>

----------------------------------------------------------------------------
(* Inputs: detections that passed the quality filter *)

BoxL == <<0, 26, 24, 74>>     \* centre (12, 50): near the left edge
BoxM == <<36, 26, 60, 74>>    \* centre (48, 50): interior
BoxN == <<59, 26, 83, 74>>    \* centre (71, 50): touches BoxM (IoU 0.02), overlaps BoxR (IoU 0.37)
BoxR == <<70, 26, 94, 74>>    \* centre (82, 50): near the right edge
BoxT == <<40, 0, 56, 36>>     \* centre (48, 18): near the top edge
BoxA == <<40, 60, 56, 96>>    \* centre (48, 78): in the audience zone

FrameInputs ==
    { <<>>, <<BoxL>>, <<BoxA, BoxM>>, <<BoxN>>, <<BoxT, BoxR>> }

\* a run's settings: the sampling interval SAMPLE_RATE / chunk_fps, the chunk's start and
\* the number of sampled frames the chunk file may hold, the stability durations, and
\* (for the end-to-end scenarios) the detections the video shows
DefaultCfg(dt) ==
    [ dt |-> dt, start_time |-> 0,
      min_frames |-> 0, max_frames |-> MaxFrames,
      enter_stability |-> ENTER_STABILITY_SECONDS,
      exit_stability |-> EXIT_STABILITY_SECONDS,
      dormant_timeout |-> DORMANT_TIMEOUT_SECONDS,
      scene |-> <<>> ]

\* SAMPLE_RATE / chunk_fps in ticks: 10 fps gives 2 ticks (1 s), 10/3 fps gives 6 ticks (3 s)
SampleIntervals == {2, 6}

YoloInit ==
    /\ cfg \in {DefaultCfg(dt) : dt \in SampleIntervals}
    /\ pc = "running"
    /\ frame_num = 0
    /\ detected_persons = <<>>
    /\ tracked_persons = <<>>
    /\ next_person_id = 0
    /\ events = <<>>

CtIdle ==
    /\ objects = <<>>
    /\ disappeared = <<>>
    /\ next_object_id = 0
    /\ max_disappeared = 0
    /\ input_centroids = <<>>

Init == YoloInit /\ CtIdle /\ PvIdle /\ SfIdle /\ CmIdle /\ RestIdle

Next ==
    \/ \E dets \in FrameInputs : ProcessFrame(dets) /\ UNCHANGED <<ctVars, pvVars, sfVars, cmVars, restVars>>
    \/ EndOfChunk /\ UNCHANGED <<ctVars, pvVars, sfVars, cmVars, restVars>>

Spec == Init /\ [][Next]_vars

----------------------------------------------------------------------------
(* CentroidTracker (the same matching code is in EnhancedPersonTracker)     *)
(* objects and disappeared are functions on the live object ids; the        *)
(* OrderedDict order is the id order, because ids are handed out in         *)
(* increasing order and an update of a key keeps its position.              *)


\* squared Euclidean distance between two centroids (cdist, order-preserving)
Dist(c1, c2) ==
    (c1[1] - c2[1]) * (c1[1] - c2[1]) + (c1[2] - c2[2]) * (c1[2] - c2[2])

SetMin(S) == CHOOSE x \in S : \A y \in S : x <= y

\* list(self.objects.keys())
RECURSIVE SortedIds(_)
SortedIds(S) ==
    IF S = {} THEN <<>>
    ELSE LET m == SetMin(S) IN <<m>> \o SortedIds(S \ {m})

\* D.min(axis=1)[row] and D.argmin(axis=1)[row] (first minimum)
RowMin(ids, row, cents) ==
    SetMin({Dist(objects[ids[row]], cents[c]) : c \in 1..Len(cents)})

ArgMin(ids, row, cents) ==
    SetMin({c \in 1..Len(cents) :
                Dist(objects[ids[row]], cents[c]) = RowMin(ids, row, cents)})

\* mutant: rows by decreasing minimum
RECURSIVE ArgSortRows_descending(_, _, _)
ArgSortRows_descending(ids, cents, remaining) ==
    IF remaining = {} THEN <<>>
    ELSE LET r == CHOOSE x \in remaining : \A y \in remaining :
                      \/ RowMin(ids, x, cents) > RowMin(ids, y, cents)
                      \/ RowMin(ids, x, cents) = RowMin(ids, y, cents) /\ x <= y
         IN  <<r>> \o ArgSortRows_descending(ids, cents, remaining \ {r})

\* D.min(axis=1).argsort(): rows by increasing minimum, equal minima in row order
RECURSIVE ArgSortRows(_, _, _)
ArgSortRows(ids, cents, remaining) ==
    IF remaining = {} THEN <<>>
    ELSE LET r == CHOOSE x \in remaining : \A y \in remaining :
                      \/ RowMin(ids, x, cents) < RowMin(ids, y, cents)
                      \/ RowMin(ids, x, cents) = RowMin(ids, y, cents) /\ x <= y
         IN  <<r>> \o ArgSortRows(ids, cents, remaining \ {r})

\* the matching loop over zip(rows, cols); m = [used_rows, used_cols, pairs]
RECURSIVE GreedyMatch(_, _, _, _, _)
GreedyMatch(ids, cents, rows, k, m) ==
    IF k > Len(rows) THEN m
    ELSE LET row == rows[k]
             col == ArgMin(ids, row, cents)
         IN  IF row \in m.used_rows \/ col \in m.used_cols
             THEN GreedyMatch(ids, cents, rows, k + 1, m)
             ELSE GreedyMatch(ids, cents, rows, k + 1,
                      [ used_rows |-> m.used_rows \cup {row},
                        used_cols |-> m.used_cols \cup {col},
                        pairs |-> m.pairs \cup {<<row, col>>} ])

Matching(ids, cents) ==
    GreedyMatch(ids, cents, ArgSortRows(ids, cents, 1..Len(ids)), 1,
                [used_rows |-> {}, used_cols |-> {}, pairs |-> {}])

\* register(): the new centroids get the ids next_object_id, next_object_id + 1, ...
RegisterAll(objs, dis, newCents) ==
    LET newIds == {next_object_id + k - 1 : k \in 1..Len(newCents)}
        all == DOMAIN objs \cup newIds
    IN  [ objs |-> [id \in all |-> IF id \in newIds
                                   THEN newCents[id - next_object_id + 1]
                                   ELSE objs[id]],
          dis |-> [id \in all |-> IF id \in newIds THEN 0 ELSE dis[id]],
          nid |-> next_object_id + Len(newCents) ]

\* mutant: an object is deregistered as soon as its counter reaches max_disappeared
MarkDisappeared_at_threshold(objs, dis, missing) ==
    LET bumped == [id \in DOMAIN dis |-> IF id \in missing THEN dis[id] + 1 ELSE dis[id]]
        keep == {id \in DOMAIN dis : ~(id \in missing /\ bumped[id] >= max_disappeared)}
    IN  [ objs |-> [id \in keep |-> objs[id]],
          dis |-> [id \in keep |-> bumped[id]] ]

\* disappeared[id] += 1 for the ids in missing, then deregister past max_disappeared
MarkDisappeared(objs, dis, missing) ==
    LET bumped == [id \in DOMAIN dis |-> IF id \in missing THEN dis[id] + 1 ELSE dis[id]]
        keep == {id \in DOMAIN dis : ~(id \in missing /\ bumped[id] > max_disappeared)}
    IN  [ objs |-> [id \in keep |-> objs[id]],
          dis |-> [id \in keep |-> bumped[id]] ]

RECURSIVE SeqOfCols(_, _, _)
SeqOfCols(cents, cols, c) ==
    IF c > Len(cents) THEN <<>>
    ELSE IF c \in cols THEN <<cents[c]>> \o SeqOfCols(cents, cols, c + 1)
    ELSE SeqOfCols(cents, cols, c + 1)

CentroidUpdateResult(cents) ==
    IF Len(cents) = 0
    THEN LET r == MarkDisappeared(objects, disappeared, DOMAIN disappeared)
         IN  [objs |-> r.objs, dis |-> r.dis, nid |-> next_object_id]
    ELSE IF DOMAIN objects = {}
    THEN RegisterAll(objects, disappeared, cents)
    ELSE LET ids == SortedIds(DOMAIN objects)
             m == Matching(ids, cents)
             matchedObjs == [id \in DOMAIN objects |->
                               IF \E pr \in m.pairs : ids[pr[1]] = id
                               THEN cents[(CHOOSE pr \in m.pairs : ids[pr[1]] = id)[2]]
                               ELSE objects[id]]
             matchedDis == [id \in DOMAIN disappeared |->
                               IF \E pr \in m.pairs : ids[pr[1]] = id
                               THEN 0 ELSE disappeared[id]]
             unused_rows == {ids[r] : r \in (1..Len(ids)) \ m.used_rows}
             unused_cols == (1..Len(cents)) \ m.used_cols
             d == MarkDisappeared(matchedObjs, matchedDis, unused_rows)
         IN  RegisterAll(d.objs, d.dis, SeqOfCols(cents, unused_cols, 1))

CentroidUpdate(cents) ==
    /\ LET r == CentroidUpdateResult(cents)
       IN  /\ r.nid <= MaxObjects
           /\ objects' = r.objs
           /\ disappeared' = r.dis
           /\ next_object_id' = r.nid
    /\ input_centroids' = cents
    /\ UNCHANGED max_disappeared

\* centroids on a line across the frame
Centroids == { <<10, 50>>, <<30, 50>>, <<48, 50>>, <<90, 50>> }

CentroidInputs ==
    {<<>>} \cup {<<c>> : c \in Centroids}
           \cup {s \in {<<c1, c2>> : c1 \in Centroids, c2 \in Centroids} : s[1] # s[2]}

MaxDisappearedChoices == {1, 2}

CtInit ==
    /\ objects = <<>>
    /\ disappeared = <<>>
    /\ next_object_id = 0
    /\ max_disappeared \in MaxDisappearedChoices
    /\ input_centroids = <<>>

YoloIdle ==
    /\ cfg = DefaultCfg(2)
    /\ pc = "done"
    /\ frame_num = 0
    /\ detected_persons = <<>>
    /\ tracked_persons = <<>>
    /\ next_person_id = 0
    /\ events = <<>>

InitCentroid == CtInit /\ YoloIdle /\ PvIdle /\ SfIdle /\ CmIdle /\ RestIdle

NextCentroid == \E cents \in CentroidInputs : CentroidUpdate(cents) /\ UNCHANGED <<yoloVars, pvVars, sfVars, cmVars, restVars>>

SpecCentroid == InitCentroid /\ [][NextCentroid]_vars

----------------------------------------------------------------------------
(* Vocabulary of the properties *)

EnterCount(ev, id) ==
    Cardinality({k \in 1..Len(ev) : ev[k].event_type = "enter" /\ ev[k].person_id = id})

ExitCount(ev, id) ==
    Cardinality({k \in 1..Len(ev) : ev[k].event_type = "exit" /\ ev[k].person_id = id})

\* a step that processes one sampled frame of the chunk
IsFrameStep == pc = "running" /\ frame_num' = frame_num + 1

\* the person with index i was tracked before the step and got no detection in it
UnmatchedInStep(i) ==
    /\ i <= Len(tracked_persons)
    /\ tracked_persons'[i].frames_missing = tracked_persons[i].frames_missing + 1

\* the person with index i was tracked before the step and was updated by a detection in it
MatchedInStep(i) ==
    /\ i <= Len(tracked_persons)
    /\ tracked_persons'[i].frames_missing = 0
    /\ tracked_persons'[i].last_seen_timestamp = GlobalTimestamp

\* C1 (as claimed): a pending identity is promoted to active only at the end of a run of
\* consecutively matched sampled frames that spans at least the enter-stability duration
\* (a run of k matched frames spans (k - 1) sampling intervals).
C1_PromotionOnlyAfterContinuousPresence ==
    [][IsFrameStep =>
        \A i \in 1..Len(tracked_persons) :
            (tracked_persons[i].state = "pending" /\ tracked_persons'[i].state = "active")
            => (tracked_persons'[i].consecutive_detections - 1) * cfg.dt
                   >= cfg.enter_stability]_vars

----------------------------------------------------------------------------
(* Videos in which every detection is isolated: no detection of a sampled   *)
(* frame overlaps a detection of the sampled frame before it.               *)

Isolated(dets, prev) ==
    \A a \in 1..Len(dets), b \in 1..Len(prev) : Intersection(dets[a], prev[b]) = 0

NextIsolated ==
    \/ \E dets \in FrameInputs :
          Isolated(dets, detected_persons) /\ ProcessFrame(dets) /\ UNCHANGED <<ctVars, pvVars, sfVars, cmVars, restVars>>
    \/ EndOfChunk /\ UNCHANGED <<ctVars, pvVars, sfVars, cmVars, restVars>>

SpecIsolated == Init /\ [][NextIsolated]_vars

\* C2 (as claimed): when all detections are isolated, no enter event is emitted and no
\* identity is active; no event at all is emitted for the pending identities they spawn.
C2_IsolatedDetectionsNeverPromoted ==
    /\ events = <<>>
    /\ \A i \in 1..Len(tracked_persons) : tracked_persons[i].state # "active"

----------------------------------------------------------------------------
(* Matching after a gap *)

\* the detection a frame step processes: the largest one outside the audience zone
KeptDetections(dets) == SelectPrimary(FilterAudience(dets))

\* person i has the best match score for bbox among the tracked persons, a tie going to
\* the lower id, and the score passes the 0.15 threshold
BestMatch(bbox, tp, i) ==
    /\ tp[i].state # "exited"
    /\ FracGt(MatchScore(bbox, tp[i]), <<3, 20>>)
    /\ \A j \in 1..Len(tp) :
          (j # i /\ tp[j].state # "exited") =>
              IF j < i THEN FracGt(MatchScore(bbox, tp[i]), MatchScore(bbox, tp[j]))
                       ELSE ~FracGt(MatchScore(bbox, tp[j]), MatchScore(bbox, tp[i]))

\* the person with index i keeps its identity through the step: it is updated by the
\* detection, no identity is created, it has no exit event and at most one enter event
SamePresence(i) ==
    /\ MatchedInStep(i)
    /\ tracked_persons'[i].person_id = tracked_persons[i].person_id
    /\ next_person_id' = next_person_id
    /\ ExitCount(events', tracked_persons[i].person_id) = 0
    /\ EnterCount(events', tracked_persons[i].person_id) <= 1

\* C3 (as claimed): a pending or active identity that missed one sampled frame is matched
\* by any detection of the next sampled frame that overlaps its last bounding box.
C3_OverlapRematchesAfterOneMiss ==
    [][IsFrameStep =>
        \A i \in 1..Len(tracked_persons) :
            ( /\ tracked_persons[i].state \in {"pending", "active"}
              /\ tracked_persons[i].frames_missing = 1
              /\ \E k \in 1..Len(detected_persons') :
                    Intersection(detected_persons'[k], tracked_persons[i].last_bbox) > 0 )
            => SamePresence(i)]_vars

\* C3 (amended): a pending or active identity that missed one sampled frame is matched by
\* the detection kept for the next sampled frame when its match score against the identity
\* exceeds 0.15 and is the best among the tracked identities.
C3_BestScoreRematchesAfterOneMiss ==
    [][IsFrameStep =>
        \A i \in 1..Len(tracked_persons) :
            ( /\ tracked_persons[i].state \in {"pending", "active"}
              /\ tracked_persons[i].frames_missing = 1
              /\ Len(KeptDetections(detected_persons')) = 1
              /\ BestMatch(KeptDetections(detected_persons')[1], tracked_persons, i) )
            => SamePresence(i)]_vars

\* a pending identity seen, missed in the next sampled frame, and matched again in the
\* one after (its run of consecutive detections restarted at 1)
C3_Witness ==
    \E i \in 1..Len(tracked_persons) :
        LET p == tracked_persons[i]
        IN  /\ pc = "running"
            /\ p.state \in {"pending", "active"}
            /\ p.frames_missing = 0
            /\ p.consecutive_detections = 1
            /\ p.last_seen_timestamp = p.first_seen_timestamp + 2 * cfg.dt
            /\ p.last_seen_timestamp = cfg.start_time + (frame_num - 1) * cfg.dt
            /\ next_person_id = 1

----------------------------------------------------------------------------
(* Exits *)

\* the centre of the box is within 20% of the frame of one of the four frame edges
NearFrameEdge(b) ==
    \/ 5 * CenterX2(b) < 2 * FrameWidth
    \/ 5 * CenterX2(b) > 8 * FrameWidth
    \/ 5 * CenterY2(b) < 2 * FrameHeight
    \/ 5 * CenterY2(b) > 8 * FrameHeight

\* C4: an entered identity (not yet dormant) that a frame step leaves unmatched: once its
\* absence has reached the exit-stability duration it becomes exited with an exit event if
\* its last box is near an edge, and dormant without an exit event otherwise; before that
\* its state does not change and no exit event is emitted.
C4_ExitOrDormantAfterExitStability ==
    [][IsFrameStep =>
        \A i \in 1..Len(tracked_persons) :
            LET p == tracked_persons[i]
                q == tracked_persons'[i]
                absence == GlobalTimestamp - p.last_seen_timestamp
            IN  ( /\ p.enter_event_emitted
                  /\ p.state \in {"pending", "active"}
                  /\ UnmatchedInStep(i) )
                => /\ (absence >= cfg.exit_stability /\ NearFrameEdge(p.last_bbox))
                        => /\ q.state = "exited"
                           /\ ExitCount(events', p.person_id)
                                  = ExitCount(events, p.person_id) + 1
                   /\ (absence >= cfg.exit_stability /\ ~NearFrameEdge(p.last_bbox))
                        => /\ q.state = "dormant"
                           /\ ExitCount(events', p.person_id) = ExitCount(events, p.person_id)
                   /\ (absence < cfg.exit_stability)
                        => /\ q.state = p.state
                           /\ ExitCount(events', p.person_id) = ExitCount(events, p.person_id)
       ]_vars

\* both outcomes have happened: one identity exited at an edge with its exit event, and
\* one identity went dormant in the interior without one
C4_Witness ==
    /\ pc = "running"
    /\ \E i \in 1..Len(tracked_persons) :
          /\ tracked_persons[i].state = "exited"
          /\ NearFrameEdge(tracked_persons[i].last_bbox)
          /\ ExitCount(events, tracked_persons[i].person_id) = 1
    /\ \E i \in 1..Len(tracked_persons) :
          /\ tracked_persons[i].state = "dormant"
          /\ ~NearFrameEdge(tracked_persons[i].last_bbox)
          /\ ExitCount(events, tracked_persons[i].person_id) = 0

\* C5: a dormant identity that a frame step leaves unmatched more than the dormant timeout
\* after it was last seen becomes exited; an exited identity is never changed again.
C5_DormantTimeoutAndExitedAbsorbing ==
    [][IsFrameStep =>
        \A i \in 1..Len(tracked_persons) :
            LET p == tracked_persons[i]
                q == tracked_persons'[i]
            IN  /\ ( /\ p.state = "dormant"
                     /\ UnmatchedInStep(i)
                     /\ GlobalTimestamp - p.last_seen_timestamp > cfg.dormant_timeout )
                   => q.state = "exited"
                /\ ( /\ p.state = "dormant"
                     /\ UnmatchedInStep(i)
                     /\ GlobalTimestamp - p.last_seen_timestamp <= cfg.dormant_timeout )
                   => q.state = "dormant"
                /\ p.state = "exited" => q = p
       ]_vars

\* an identity timed out of dormancy (it exited away from every edge), and a later frame
\* showed a detection at its last position, which spawned a new identity
C5_Witness ==
    \E i \in 1..Len(tracked_persons) :
        LET p == tracked_persons[i]
        IN  /\ p.state = "exited"
            /\ p.enter_event_emitted
            /\ ~NearFrameEdge(p.last_bbox)
            /\ ExitCount(events, p.person_id) = 1
            /\ pc = "running"
            /\ Len(KeptDetections(detected_persons)) = 1
            /\ KeptDetections(detected_persons)[1] = p.last_bbox
            /\ \E j \in 1..Len(tracked_persons) :
                  j > i /\ tracked_persons[j].last_bbox = p.last_bbox

\* C6 (as claimed): the detection a frame step processes, when its centre is within 30%
\* of the frame width of a dormant identity's last centre, is matched to that identity.
C6_NearDormantIsReassociated ==
    [][IsFrameStep =>
        \A i \in 1..Len(tracked_persons) :
            ( /\ tracked_persons[i].state = "dormant"
              /\ Len(KeptDetections(detected_persons')) = 1
              /\ DormantNear(KeptDetections(detected_persons')[1], tracked_persons[i]) )
            => /\ MatchedInStep(i)
               /\ tracked_persons'[i].person_id = tracked_persons[i].person_id
               /\ next_person_id' = next_person_id
               /\ EnterCount(events', tracked_persons[i].person_id) = 1]_vars

\* C6 (amended): such a detection never creates an identity and never causes a second
\* enter event for the dormant identity; it is matched to the dormant identity whenever
\* no other tracked identity has a better match score.
C6_NearDormantNeverSplits ==
    [][IsFrameStep =>
        \A i \in 1..Len(tracked_persons) :
            ( /\ tracked_persons[i].state = "dormant"
              /\ Len(KeptDetections(detected_persons')) = 1
              /\ DormantNear(KeptDetections(detected_persons')[1], tracked_persons[i]) )
            => /\ next_person_id' = next_person_id
               /\ EnterCount(events', tracked_persons[i].person_id) = 1
               /\ tracked_persons'[i].person_id = tracked_persons[i].person_id
               /\ BestMatch(KeptDetections(detected_persons')[1], tracked_persons, i)
                     => MatchedInStep(i) /\ tracked_persons'[i].state = "pending"]_vars

\* an identity that entered, went dormant and was re-associated: it is pending again with
\* its enter event already emitted, and it is the only identity
C6_Witness ==
    /\ pc = "running"
    /\ next_person_id = 1
    /\ tracked_persons[1].state = "pending"
    /\ tracked_persons[1].enter_event_emitted
    /\ tracked_persons[1].frames_missing = 0
    /\ EnterCount(events, 0) = 1

----------------------------------------------------------------------------
(* End-to-end scenario 1: 40 frames one second apart, frames 5..34 show one  *)
(* fixed interior detection; stabilization 3 s, exit stability 2 s.          *)

BoxC == <<30, 26, 54, 74>>    \* centre (42, 50): interior

InteriorBoxes == {b \in {BoxC, BoxM, BoxN} : ~NearFrameEdge(b) /\ ~is_in_audience_zone(b)}

Scenario1Cfg(box) ==
    [ dt |-> 2, start_time |-> 0,
      min_frames |-> 40, max_frames |-> 40,
      enter_stability |-> 6,
      exit_stability |-> 4,
      dormant_timeout |-> DORMANT_TIMEOUT_SECONDS,
      scene |-> <<box>> ]

Scenario1Input == IF frame_num >= 5 /\ frame_num <= 34 THEN cfg.scene ELSE <<>>

InitScenario1 ==
    /\ cfg \in {Scenario1Cfg(b) : b \in InteriorBoxes}
    /\ pc = "running"
    /\ frame_num = 0
    /\ detected_persons = <<>>
    /\ tracked_persons = <<>>
    /\ next_person_id = 0
    /\ events = <<>>
    /\ CtIdle /\ PvIdle /\ SfIdle /\ CmIdle /\ RestIdle

NextScenario1 ==
    \/ ProcessFrame(Scenario1Input) /\ UNCHANGED <<ctVars, pvVars, sfVars, cmVars, restVars>>
    \/ EndOfChunk /\ UNCHANGED <<ctVars, pvVars, sfVars, cmVars, restVars>>

SpecScenario1 == InitScenario1 /\ [][NextScenario1]_vars

\* whole seconds to ticks
Seconds(n) == 2 * n

\* C7 (as claimed): the finished chunk holds exactly one enter event timed within a second
\* of t = 8 s and exactly one exit event timed within a second of t = 36 s, nothing else.
C7_Scenario1AsClaimed ==
    pc = "done" =>
        /\ Len(events) = 2
        /\ \E k \in 1..2 : /\ events[k].event_type = "enter"
                           /\ events[k].timestamp >= Seconds(7)
                           /\ events[k].timestamp <= Seconds(9)
        /\ \E k \in 1..2 : /\ events[k].event_type = "exit"
                           /\ events[k].timestamp >= Seconds(35)
                           /\ events[k].timestamp <= Seconds(37)

\* C7 (amended): exactly one enter event, emitted when the frame of t = 8 s is processed
\* and stamped with the first-seen time 5 s, and exactly one exit event, stamped with the
\* last-seen time 34 s and emitted at the end of the chunk (at t = 36 s the identity only
\* becomes dormant, because its position is interior); no other event.
C7_Scenario1 ==
    LET enter == PoseEvent(Seconds(5), "enter", 0, cfg.scene[1])
        exit == PoseEvent(Seconds(34), "exit", 0, cfg.scene[1])
    IN  /\ (pc = "running" /\ frame_num <= 8) => events = <<>>
        /\ (pc = "running" /\ frame_num >= 9) => events = <<enter>>
        /\ (pc = "running" /\ frame_num >= 37) =>
               /\ next_person_id = 1
               /\ tracked_persons[1].state = "dormant"
        /\ pc = "done" => events = <<enter, exit>>

C7_Witness == pc = "done" /\ frame_num = 40 /\ Len(events) = 2

----------------------------------------------------------------------------
(* Matching in CentroidTracker.update *)

\* the spec's "maximum match distance" has no counterpart in the code; the claim is
\* stated for half the frame width (squared, as Dist is)
MaxMatchDistance2 == (FrameWidth \div 2) * (FrameWidth \div 2)

\* C8 (as claimed): no update moves an existing object to a detection farther away than
\* the maximum match distance.
C8_NoMatchBeyondMaxDistance ==
    [][\A id \in DOMAIN objects \cap DOMAIN objects' :
          Dist(objects[id], objects'[id]) <= MaxMatchDistance2]_vars

Range(seq) == {seq[k] : k \in 1..Len(seq)}

\* ids that existed before the step and were matched in it, and ids registered by it
MatchedIds == {id \in DOMAIN objects \cap DOMAIN objects' : disappeared'[id] = 0}
NewIds == DOMAIN objects' \ DOMAIN objects

\* C9 (as claimed): in every update each detection goes to exactly one identity and no two
\* identities receive the same detection; the identity that receives a detection has the
\* best score for it: no identity left without a detection is nearer to it.
C9_DetectionGoesToNearestFreeIdentity ==
    [][input_centroids' # <<>> =>
        /\ Cardinality(MatchedIds \cup NewIds) = Len(input_centroids')
        /\ {objects'[id] : id \in MatchedIds \cup NewIds} = Range(input_centroids')
        /\ \A a \in MatchedIds, b \in DOMAIN objects :
              (b # a /\ Dist(objects[b], objects'[a]) < Dist(objects[a], objects'[a]))
              => b \in MatchedIds
       ]_vars

\* C9 (amended): in every update each detection goes to exactly one identity (an existing
\* one or a newly registered one) and no two identities receive the same detection; the
\* identity that receives a detection is nearest to it among the identities that compete
\* for it, which are those whose nearest detection it is.
C9_GreedyNearestAssignment ==
    [][input_centroids' # <<>> =>
        /\ Cardinality(MatchedIds \cup NewIds) = Len(input_centroids')
        /\ {objects'[id] : id \in MatchedIds \cup NewIds} = Range(input_centroids')
        /\ \A a \in MatchedIds, b \in DOMAIN objects :
              (\A c \in Range(input_centroids') :
                   c # objects'[a] => Dist(objects[b], objects'[a]) < Dist(objects[b], c))
              => Dist(objects[a], objects'[a]) <= Dist(objects[b], objects'[a])
       ]_vars

\* two tracked objects competed for a single detection: one of them holds it, the other
\* was counted as disappeared
C9_Witness ==
    /\ Len(input_centroids) = 1
    /\ \E a \in DOMAIN objects, b \in DOMAIN objects :
          /\ a # b
          /\ disappeared[a] = 0
          /\ objects[a] = input_centroids[1]
          /\ disappeared[b] >= 1
          /\ objects[b] # objects[a]

----------------------------------------------------------------------------
(* End-to-end scenario 2: ten frames, each with the same two detections far  *)
(* apart.  The same frames are handed to the chunk tracker and, as centres,  *)
(* to the centroid tracker.                                                  *)

FarPairs ==
    {s \in {<<b1, b2>> : b1 \in {BoxL, BoxM, BoxN, BoxR}, b2 \in {BoxL, BoxM, BoxN, BoxR}} :
        100 * calculate_center_distance(s[1], s[2]) >= 36 * FrameWidth * FrameWidth}

\* cx = x + w / 2, cy = y + h / 2
CentroidOf(b) == <<CenterX2(b) \div 2, CenterY2(b) \div 2>>

Scenario2Cfg(dt, pair) ==
    [DefaultCfg(dt) EXCEPT !.min_frames = 10, !.max_frames = 10, !.scene = pair]

InitScenario2 ==
    /\ cfg \in {Scenario2Cfg(dt, pair) : dt \in SampleIntervals, pair \in FarPairs}
    /\ pc = "running"
    /\ frame_num = 0
    /\ detected_persons = <<>>
    /\ tracked_persons = <<>>
    /\ next_person_id = 0
    /\ events = <<>>
    /\ CtInit /\ PvIdle /\ SfIdle /\ CmIdle /\ RestIdle

Scenario2Frame ==
    /\ ProcessFrame(cfg.scene)
    /\ CentroidUpdate(<<CentroidOf(cfg.scene[1]), CentroidOf(cfg.scene[2])>>)
    /\ UNCHANGED <<pvVars, sfVars, cmVars, restVars>>

NextScenario2 ==
    \/ Scenario2Frame
    \/ EndOfChunk /\ UNCHANGED <<ctVars, pvVars, sfVars, cmVars, restVars>>

SpecScenario2 == InitScenario2 /\ [][NextScenario2]_vars

\* the centroid tracker holds the ids 0 and 1, bound to the first and the second detection
CentroidHoldsBoth ==
    /\ DOMAIN objects = {0, 1}
    /\ next_object_id = 2
    /\ objects[0] = CentroidOf(cfg.scene[1])
    /\ objects[1] = CentroidOf(cfg.scene[2])
    /\ disappeared[0] = 0 /\ disappeared[1] = 0

\* C10 (as claimed): after each of the ten frames both trackers hold exactly two
\* identities, with the same ids, each bound to the same detection location.
C10_Scenario2AsClaimed ==
    frame_num >= 1 =>
        /\ CentroidHoldsBoth
        /\ next_person_id = 2
        /\ tracked_persons[1].last_bbox = cfg.scene[1]
        /\ tracked_persons[2].last_bbox = cfg.scene[2]
        /\ tracked_persons[1].state # "exited" /\ tracked_persons[2].state # "exited"

\* C10 (amended): the centroid tracker holds exactly the two identities 0 and 1, each
\* bound to its detection in every frame; the chunk tracker keeps only the largest
\* detection of a frame (the first of two equally large ones), so it holds exactly one
\* identity, id 0, bound to that detection in every frame.
C10_Scenario2 ==
    frame_num >= 1 =>
        /\ CentroidHoldsBoth
        /\ next_person_id = 1
        /\ tracked_persons[1].person_id = 0
        /\ tracked_persons[1].last_bbox = cfg.scene[1]
        /\ tracked_persons[1].state \in {"pending", "active"}
        /\ tracked_persons[1].frames_missing = 0

C10_Witness == frame_num = 10 /\ pc = "done" /\ DOMAIN objects = {0, 1} /\ next_person_id = 1

----------------------------------------------------------------------------
(* process_video: the chunks are processed by parallel workers, each in a    *)
(* process of its own, and their results are consolidated as they complete.  *)
(* A worker shares nothing with the others, so the model runs one chunk at   *)
(* a time, in any order, and lets the results be collected in any order.     *)

MaxChunks == 2
MaxChunkFrames == 3

\* CHUNK_DURATION = 30 s, in ticks
CHUNK_DURATION == 60

VideoFrameInputs == { <<>>, <<BoxL>>, <<BoxN>> }

ChunkCfg(dt, i) ==
    [DefaultCfg(dt) EXCEPT !.start_time = i * CHUNK_DURATION, !.max_frames = MaxChunkFrames]

\* a submitted future: "submitted", "running", "done" (returned), "raised", and after the
\* consolidation loop has seen it "collected" or "skipped"; completed is the value of
\* chunks_completed when its result was consolidated
Future(status, evs, n) == [status |-> status, events |-> evs, completed |-> n]

chunks_completed ==
    Cardinality({i \in DOMAIN futures : futures[i].status = "collected"})

\* list.sort(key=timestamp): stable, ascending
RECURSIVE InsertByTimestamp(_, _)
InsertByTimestamp(sorted, e) ==
    IF sorted = <<>> THEN <<e>>
    ELSE IF Head(sorted).timestamp <= e.timestamp
         THEN <<Head(sorted)>> \o InsertByTimestamp(Tail(sorted), e)
         ELSE <<e>> \o sorted

RECURSIVE SortPrefix(_, _)
SortPrefix(evs, n) ==
    IF n = 0 THEN <<>> ELSE InsertByTimestamp(SortPrefix(evs, n - 1), evs[n])

\* mutant: the consolidated list is left in completion order
SortByTimestamp_completion_order(evs) == evs

SortByTimestamp(evs) == SortPrefix(evs, Len(evs))

InitVideo ==
    /\ cfg \in {ChunkCfg(dt, 0) : dt \in SampleIntervals}
    /\ pc = "done"
    /\ frame_num = 0
    /\ detected_persons = <<>>
    /\ tracked_persons = <<>>
    /\ next_person_id = 0
    /\ events = <<>>
    /\ \E n \in 1..MaxChunks : futures = [i \in 0..(n - 1) |-> Future("submitted", <<>>, 0)]
    /\ chunk_index = 0
    /\ all_events = <<>>
    /\ video_pc = "collecting"
    /\ CtIdle /\ SfIdle /\ CmIdle /\ RestIdle

\* a worker takes a submitted chunk: _process_chunk starts with an empty tracker
StartChunk(i) ==
    /\ video_pc = "collecting"
    /\ pc = "done"
    /\ futures[i].status = "submitted"
    /\ futures' = [futures EXCEPT ![i].status = "running"]
    /\ chunk_index' = i
    /\ cfg' = ChunkCfg(cfg.dt, i)
    /\ pc' = "running"
    /\ frame_num' = 0
    /\ detected_persons' = <<>>
    /\ tracked_persons' = <<>>
    /\ next_person_id' = 0
    /\ events' = <<>>
    /\ UNCHANGED <<all_events, video_pc>>

ChunkFrame(dets) ==
    /\ futures[chunk_index].status = "running"
    /\ ProcessFrame(dets)
    /\ UNCHANGED pvVars

\* _process_chunk returns (chunk.index, events, pose_metadata)
ChunkReturns ==
    /\ futures[chunk_index].status = "running"
    /\ EndOfChunk
    /\ futures' = [futures EXCEPT ![chunk_index] = Future("done", events', 0)]
    /\ UNCHANGED <<chunk_index, all_events, video_pc>>

\* the worker raises (the model or the chunk file cannot be opened)
ChunkRaises ==
    /\ futures[chunk_index].status = "running"
    /\ pc = "running"
    /\ pc' = "done"
    /\ futures' = [futures EXCEPT ![chunk_index].status = "raised"]
    /\ UNCHANGED <<cfg, frame_num, detected_persons, tracked_persons, next_person_id, events,
                   chunk_index, all_events, video_pc>>

\* one round of the as_completed loop
Collect(i) ==
    /\ video_pc = "collecting"
    /\ futures[i].status \in {"done", "raised"}
    /\ IF futures[i].status = "done"
       THEN /\ all_events' = all_events \o futures[i].events
            /\ futures' = [futures EXCEPT ![i].status = "collected",
                                          ![i].completed = chunks_completed + 1]
       ELSE /\ all_events' = all_events
            /\ futures' = [futures EXCEPT ![i].status = "skipped"]
    /\ UNCHANGED <<chunk_index, video_pc, yoloVars>>

SortEvents ==
    /\ video_pc = "collecting"
    /\ \A i \in DOMAIN futures : futures[i].status \in {"collected", "skipped"}
    /\ all_events' = SortByTimestamp(all_events)
    /\ video_pc' = "sorted"
    /\ UNCHANGED <<futures, chunk_index, yoloVars>>

NextVideo ==
    \/ \E i \in DOMAIN futures : StartChunk(i) /\ UNCHANGED <<ctVars, sfVars, cmVars, restVars>>
    \/ \E dets \in VideoFrameInputs : ChunkFrame(dets) /\ UNCHANGED <<ctVars, sfVars, cmVars, restVars>>
    \/ ChunkReturns /\ UNCHANGED <<ctVars, sfVars, cmVars, restVars>>
    \/ ChunkRaises /\ UNCHANGED <<ctVars, sfVars, cmVars, restVars>>
    \/ \E i \in DOMAIN futures : Collect(i) /\ UNCHANGED <<ctVars, sfVars, cmVars, restVars>>
    \/ SortEvents /\ UNCHANGED <<ctVars, sfVars, cmVars, restVars>>

SpecVideo == InitVideo /\ [][NextVideo]_vars

PersonIdsOf(evs) == {evs[k].person_id : k \in 1..Len(evs)}

Collected == {i \in DOMAIN futures : futures[i].status = "collected"}

\* C11 (as claimed): in the consolidated event list, the events of two different chunks
\* never carry the same person_id.
C11_PersonIdsDisjointAcrossChunks ==
    video_pc = "sorted" =>
        \A i \in Collected, j \in Collected :
            i # j => PersonIdsOf(futures[i].events) \cap PersonIdsOf(futures[j].events) = {}

CountIn(evs, e) == Cardinality({k \in 1..Len(evs) : evs[k] = e})

RECURSIVE CountInChunks(_, _)
CountInChunks(chunks, e) ==
    IF chunks = {} THEN 0
    ELSE LET i == CHOOSE c \in chunks : TRUE
         IN  CountIn(futures[i].events, e) + CountInChunks(chunks \ {i}, e)

EventsOfChunks == UNION {Range(futures[i].events) : i \in Collected}

\* C12: the consolidated event list is in non-decreasing timestamp order and holds every
\* event of every completed chunk exactly as often as the chunks returned it, in whatever
\* order the chunks completed.
C12_ConsolidatedSortedAndComplete ==
    video_pc = "sorted" =>
        /\ \A k \in 1..(Len(all_events) - 1) :
              all_events[k].timestamp <= all_events[k + 1].timestamp
        /\ Range(all_events) = EventsOfChunks
        /\ \A e \in EventsOfChunks : CountIn(all_events, e) = CountInChunks(Collected, e)

\* two chunks with events, consolidated in the reverse of their order in the video
C12_Witness ==
    /\ video_pc = "sorted"
    /\ \E i \in Collected, j \in Collected :
          /\ i < j
          /\ futures[j].completed < futures[i].completed
          /\ futures[i].events # <<>>
          /\ futures[j].events # <<>>

----------------------------------------------------------------------------
(* Frames without detections (CentroidTracker) *)

\* C13: an update with zero detections creates no identity, leaves every tracked
\* identity's position unchanged and adds exactly one to its missing counter; in every
\* update an identity is deregistered exactly when it is unmatched and its counter then
\* exceeds max_disappeared, and its counter returns to 0 only when a detection is matched
\* to it.
C13_EmptyFrameOnlyCountsMissing ==
    [][ /\ input_centroids' = <<>> =>
              /\ next_object_id' = next_object_id
              /\ DOMAIN objects' \subseteq DOMAIN objects
              /\ \A id \in DOMAIN objects :
                    /\ id \in DOMAIN objects' <=> disappeared[id] + 1 <= max_disappeared
                    /\ id \in DOMAIN objects' =>
                          /\ objects'[id] = objects[id]
                          /\ disappeared'[id] = disappeared[id] + 1
        /\ \A id \in DOMAIN objects :
              \/ /\ id \in DOMAIN objects'
                 /\ disappeared'[id] = 0
                 /\ objects'[id] \in Range(input_centroids')
              \/ /\ id \in DOMAIN objects'
                 /\ disappeared'[id] = disappeared[id] + 1
                 /\ disappeared'[id] <= max_disappeared
                 /\ objects'[id] = objects[id]
              \/ /\ id \notin DOMAIN objects'
                 /\ disappeared[id] + 1 > max_disappeared
      ]_vars

\* after a frame without detections one identity has just reached max_disappeared, and
\* another identity has been deregistered before
C13_Witness ==
    /\ input_centroids = <<>>
    /\ \E id \in DOMAIN objects : disappeared[id] = max_disappeared
    /\ next_object_id > Cardinality(DOMAIN objects)

----------------------------------------------------------------------------
(* SegmentFilter (src/python_backend/filters/segment_filter.py)              *)
(* A segment is <<start, end>> in whole seconds; the values used are exactly *)
(* representable as floats, so the float arithmetic of the code is exact.    *)

MaxSegments == 3
MaxFilterCalls == 2

\* video_duration = None
NoDuration == -1

FilterConfig(min_d, max_d, merge, thr, before, after) ==
    [ min_duration |-> min_d, max_duration |-> max_d,
      merge_close_segments |-> merge, merge_threshold |-> thr,
      buffer_before_start |-> before, buffer_after_end |-> after ]

\* mutant: a segment of exactly min_duration is dropped
DurationOk_exclusive_min(c, duration) ==
    ~(duration <= c.min_duration) /\ ~(duration > c.max_duration)

\* the two duration tests of the loop
DurationOk(c, duration) ==
    ~(duration < c.min_duration) /\ ~(duration > c.max_duration)

\* mutant: a gap of exactly merge_threshold is merged too
MergesWithPrevious_inclusive(c, filtered, start) ==
    /\ filtered # <<>>
    /\ c.merge_close_segments
    /\ start - filtered[Len(filtered)][2] <= c.merge_threshold

\* the merge test of the loop
MergesWithPrevious(c, filtered, start) ==
    /\ filtered # <<>>
    /\ c.merge_close_segments
    /\ start - filtered[Len(filtered)][2] < c.merge_threshold

\* mutant: the loop never merges
RECURSIVE FilterLoop_never_merges(_, _, _, _)
FilterLoop_never_merges(c, segs, i, filtered) ==
    IF i > Len(segs) THEN filtered
    ELSE LET start == segs[i][1]
             end == segs[i][2]
         IN  IF ~DurationOk(c, end - start) THEN FilterLoop_never_merges(c, segs, i + 1, filtered)
             ELSE FilterLoop_never_merges(c, segs, i + 1, Append(filtered, <<start, end>>))

\* the first loop of filter: duration test, then merge or append
RECURSIVE FilterLoop(_, _, _, _)
FilterLoop(c, segs, i, filtered) ==
    IF i > Len(segs) THEN filtered
    ELSE LET start == segs[i][1]
             end == segs[i][2]
         IN  IF ~DurationOk(c, end - start) THEN FilterLoop(c, segs, i + 1, filtered)
             ELSE IF MergesWithPrevious(c, filtered, start)
             THEN FilterLoop(c, segs, i + 1,
                             [filtered EXCEPT ![Len(filtered)] = <<@[1], end>>])
             ELSE FilterLoop(c, segs, i + 1, Append(filtered, <<start, end>>))

\* mutant: the end of a buffered segment is not clamped to the video duration
ApplyBuffers_no_end_clamp(c, filtered, duration) ==
    [ k \in 1..Len(filtered) |->
        <<Max2(0, filtered[k][1] - c.buffer_before_start),
          filtered[k][2] + c.buffer_after_end>> ]

\* the second loop of filter
ApplyBuffers(c, filtered, duration) ==
    [ k \in 1..Len(filtered) |->
        <<Max2(0, filtered[k][1] - c.buffer_before_start),
          IF duration # NoDuration
          THEN Min2(duration, filtered[k][2] + c.buffer_after_end)
          ELSE filtered[k][2] + c.buffer_after_end>> ]

\* mutant: the buffers are applied to the raw segments, before the duration test and the
\* merge
filter_buffers_first(c, segs, duration) ==
    IF segs = <<>> THEN <<>>
    ELSE FilterLoop(c, ApplyBuffers(c, segs, duration), 1, <<>>)

\* SegmentFilter.filter
filter(c, segs, duration) ==
    IF segs = <<>> THEN <<>>
    ELSE ApplyBuffers(c, FilterLoop(c, segs, 1, <<>>), duration)

\* defaults of filter_segments
DEFAULT_MAX_DURATION == 1800

\* mutant: the convenience function builds a configuration that never merges
filter_segments_config_no_merge(min_d, thr, before, after) ==
    FilterConfig(min_d, DEFAULT_MAX_DURATION, FALSE, thr, before, after)

\* the FilterConfig built by filter_segments (max_duration left at its default)
filter_segments_config(min_d, thr, before, after) ==
    FilterConfig(min_d, DEFAULT_MAX_DURATION, TRUE, thr, before, after)

\* raw segments as a detector reports them: in chronological order, inside the video
SegmentChoices ==
    << <<10, 50>>, <<53, 90>>, <<55, 70>>, <<95, 300>>, <<200, 260>>, <<265, 300>> >>

VideoDurations == {300, NoDuration}

RECURSIVE SegmentListsFrom(_, _)
SegmentListsFrom(first, len) ==
    IF len = 0 THEN {<<>>}
    ELSE {<<>>} \cup
         UNION { {<<SegmentChoices[k]>> \o rest : rest \in SegmentListsFrom(k, len - 1)}
                 : k \in first..Len(SegmentChoices) }

SegmentLists == SegmentListsFrom(1, MaxSegments)

FilterConfigs ==
    { FilterConfig(min_d, max_d, merge, thr, b[1], b[2]) :
        min_d \in {20, 40}, max_d \in {60, DEFAULT_MAX_DURATION}, merge \in BOOLEAN,
        thr \in {3, 5}, b \in {<<0, 0>>, <<2, 2>>, <<10, 5>>} }

SfInit ==
    /\ filter_config \in FilterConfigs
    /\ segments = <<>>
    /\ video_duration = NoDuration
    /\ buffered = <<>>
    /\ filter_calls = 0

\* SegmentFilter(config).filter(segs, duration)
Filter(segs, duration) ==
    /\ filter_calls = 0
    /\ segments' = segs
    /\ video_duration' = duration
    /\ buffered' = filter(filter_config, segs, duration)
    /\ filter_calls' = filter_calls + 1
    /\ UNCHANGED filter_config

\* filter_segments(segs, min_duration, merge_threshold=..., buffer_before=...,
\* buffer_after=..., video_duration=...)
FilterSegments(segs, min_d, thr, before, after, duration) ==
    /\ filter_calls = 0
    /\ filter_config' = filter_segments_config(min_d, thr, before, after)
    /\ segments' = segs
    /\ video_duration' = duration
    /\ buffered' = filter(filter_config', segs, duration)
    /\ filter_calls' = filter_calls + 1

\* the filter is applied to its own result, with the same configuration and duration
FilterAgain ==
    /\ filter_calls >= 1
    /\ filter_calls < MaxFilterCalls
    /\ segments' = buffered
    /\ buffered' = filter(filter_config, buffered, video_duration)
    /\ filter_calls' = filter_calls + 1
    /\ UNCHANGED <<filter_config, video_duration>>

InitFilter == SfInit /\ YoloIdle /\ CtIdle /\ PvIdle /\ CmIdle /\ RestIdle

NextFilter ==
    \/ \E segs \in SegmentLists, duration \in VideoDurations :
          Filter(segs, duration) /\ UNCHANGED <<yoloVars, ctVars, pvVars, cmVars, restVars>>
    \/ \E segs \in SegmentLists, min_d \in {20}, thr \in {5}, b \in {<<2, 2>>},
          duration \in VideoDurations :
          FilterSegments(segs, min_d, thr, b[1], b[2], duration)
              /\ UNCHANGED <<yoloVars, ctVars, pvVars, cmVars, restVars>>
    \/ FilterAgain /\ UNCHANGED <<yoloVars, ctVars, pvVars, cmVars, restVars>>

SpecFilter == InitFilter /\ [][NextFilter]_vars

----------------------------------------------------------------------------
(* Properties of SegmentFilter.filter *)

\* C14 (as claimed): applying filter to its own result, with the same configuration and
\* video duration, returns that result unchanged.
C14_FilterIdempotent ==
    [][ (filter_calls >= 1 /\ filter_calls' = filter_calls + 1) => buffered' = buffered ]_vars

\* the segments that survived the duration test and the merge of the last call, before
\* buffering
Unbuffered(n) == FilterLoop(filter_config, SubSeq(segments, 1, n), 1, <<>>)

Last(seq) == seq[Len(seq)]

\* C15: every emitted segment starts no later and ends no earlier than the surviving
\* segment it was made from, starts at or after 0, does not end before it starts, and
\* when the video duration is given ends at or before it.
C15_BufferingMonotonicAndClamped ==
    filter_calls >= 1 =>
        LET f == Unbuffered(Len(segments))
        IN  /\ Len(buffered) = Len(f)
            /\ \A k \in 1..Len(f) :
                  /\ buffered[k][1] <= f[k][1]
                  /\ buffered[k][2] >= f[k][2]
                  /\ 0 <= buffered[k][1]
                  /\ buffered[k][1] <= buffered[k][2]
                  /\ video_duration # NoDuration => buffered[k][2] <= video_duration

\* both clamps have acted: one segment would have started before 0, one would have ended
\* after the video
C15_Witness ==
    /\ filter_calls >= 1
    /\ video_duration # NoDuration
    /\ LET f == Unbuffered(Len(segments))
       IN  /\ \E k \in 1..Len(f) :
                 f[k][1] - filter_config.buffer_before_start < 0 /\ buffered[k][1] = 0
           /\ \E k \in 1..Len(f) :
                 /\ f[k][2] + filter_config.buffer_after_end > video_duration
                 /\ buffered[k][2] = video_duration

InRange(c, s) == c.min_duration <= s[2] - s[1] /\ s[2] - s[1] <= c.max_duration

RECURSIVE KeepInRange(_, _)
KeepInRange(c, segs) ==
    IF segs = <<>> THEN <<>>
    ELSE IF InRange(c, Head(segs)) THEN <<Head(segs)>> \o KeepInRange(c, Tail(segs))
    ELSE KeepInRange(c, Tail(segs))

\* C16: the result is the buffering of what the duration test and the merge produce
\* without any buffer; that unbuffered result is the same whether or not the raw segments
\* failing the duration test are removed first, and its bounds are raw starts and raw ends.
C16_DurationThenMergeThenBuffer ==
    filter_calls >= 1 =>
        LET c0 == [filter_config EXCEPT !.buffer_before_start = 0, !.buffer_after_end = 0]
            plain == filter(c0, segments, NoDuration)
            kept == KeepInRange(filter_config, segments)
        IN  /\ plain = filter(c0, kept, NoDuration)
            /\ Len(buffered) = Len(plain)
            /\ buffered = ApplyBuffers(filter_config, plain, video_duration)
            /\ \A k \in 1..Len(plain) :
                  /\ \E i \in 1..Len(kept) : plain[k][1] = kept[i][1]
                  /\ \E i \in 1..Len(kept) : plain[k][2] = kept[i][2]

\* the buffers are not zero; two kept neighbours stay separate although their buffered
\* bounds are closer than merge_threshold, and a raw segment failed the duration test
C16_Witness ==
    /\ filter_calls = 1
    /\ filter_config.merge_close_segments
    /\ filter_config.buffer_before_start > 0
    /\ LET f == Unbuffered(Len(segments))
       IN  /\ \E k \in 1..(Len(f) - 1) :
                 /\ f[k + 1][1] - f[k][2] >= filter_config.merge_threshold
                 /\ (f[k + 1][1] - filter_config.buffer_before_start)
                        - (f[k][2] + filter_config.buffer_after_end)
                      < filter_config.merge_threshold
           /\ Len(KeepInRange(filter_config, segments)) < Len(segments)

\* C17: a raw segment whose duration lies in [min_duration, max_duration], bounds included,
\* becomes or extends the last surviving segment; any other raw segment changes nothing;
\* the result is empty exactly when no raw segment has its duration in that range.
C17_ContributesIffDurationInRange ==
    filter_calls >= 1 =>
        /\ \A i \in 1..Len(segments) :
              IF InRange(filter_config, segments[i])
              THEN /\ Unbuffered(i) # <<>>
                   /\ Last(Unbuffered(i))[2] = segments[i][2]
                   /\ Unbuffered(i) # Unbuffered(i - 1) \/ Last(Unbuffered(i - 1))[2] = segments[i][2]
              ELSE Unbuffered(i) = Unbuffered(i - 1)
        /\ Len(buffered) = Len(Unbuffered(Len(segments)))
        /\ buffered = <<>> <=>
              \A i \in 1..Len(segments) : ~InRange(filter_config, segments[i])

\* one segment of exactly min_duration and one of exactly max_duration are kept, a shorter
\* one is dropped
C17_Witness ==
    /\ filter_calls = 1
    /\ Len(buffered) = 2
    /\ \E i \in 1..Len(segments) :
          segments[i][2] - segments[i][1] = filter_config.min_duration
    /\ \E i \in 1..Len(segments) :
          segments[i][2] - segments[i][1] = filter_config.max_duration
    /\ \E i \in 1..Len(segments) :
          segments[i][2] - segments[i][1] < filter_config.min_duration

\* C18: going through the kept segments in order, one that starts less than
\* merge_threshold after the end of the kept segment before it adds no output segment and
\* moves the end of the last one; a gap of merge_threshold or more, or merging switched
\* off, adds an output segment equal to the kept segment.
C18_MergeBelowThresholdOnly ==
    filter_calls >= 1 =>
        LET K == KeepInRange(filter_config, segments)
            U(n) == FilterLoop(filter_config, SubSeq(K, 1, n), 1, <<>>)
        IN  /\ buffered = ApplyBuffers(filter_config, U(Len(K)), video_duration)
            /\ \A i \in 1..Len(K) :
                  IF /\ i > 1
                     /\ filter_config.merge_close_segments
                     /\ K[i][1] - K[i - 1][2] < filter_config.merge_threshold
                  THEN /\ Len(U(i)) = Len(U(i - 1))
                       /\ Last(U(i)) = <<Last(U(i - 1))[1], K[i][2]>>
                  ELSE /\ Len(U(i)) = Len(U(i - 1)) + 1
                       /\ Last(U(i)) = K[i]
            /\ ~filter_config.merge_close_segments => Len(buffered) = Len(K)

\* three kept segments: the second is merged into the first, the third starts exactly
\* merge_threshold after the second and stays separate
C18_Witness ==
    /\ filter_calls = 1
    /\ filter_config.merge_close_segments
    /\ LET K == KeepInRange(filter_config, segments)
       IN  /\ Len(K) = 3
           /\ K[2][1] - K[1][2] < filter_config.merge_threshold
           /\ K[3][1] - K[2][2] = filter_config.merge_threshold
           /\ Len(buffered) = 2

Scenario3Segments == << <<10, 50>>, <<53, 90>>, <<200, 260>> >>

Scenario3Config == filter_segments_config(20, 5, 2, 2)

Scenario3Call ==
    /\ filter_calls = 1
    /\ filter_config = Scenario3Config
    /\ segments = Scenario3Segments
    /\ video_duration = 300

\* C19: filtering [(10,50),(53,90),(200,260)] with merge_threshold 5, min_duration 20,
\* buffers (2,2) and video_duration 300 returns exactly [(8,92),(198,262)].
C19_Scenario3 ==
    Scenario3Call => buffered = << <<8, 92>>, <<198, 262>> >>

C19_Witness ==
    /\ Scenario3Call
    /\ Len(buffered) = 2

----------------------------------------------------------------------------
(* CacheManager (src/python_backend/core/cache_manager.py)                   *)
(* A blob is the pickled DetectionCache of <cache_key>.pkl; pickling is      *)
(* lossless, so the blob is the record itself, and its size is given in GB   *)
(* by its frame_count.  A cache key is the pair of the two hashes.           *)

MaxClock == 4

MAX_CACHE_SIZE_GB == 10

\* what load_cache returns when it finds nothing
None == [none |-> TRUE]

\* a blob that cannot be unpickled (a write that stopped half-way)
Truncated == [truncated |-> TRUE]

\* a video file: size, modification time, its first and last 64 KB, and the rest
Videos ==
    { [size |-> 1, mtime |-> 1, edges |-> "a", middle |-> "x"],
      [size |-> 1, mtime |-> 1, edges |-> "a", middle |-> "y"],
      [size |-> 2, mtime |-> 1, edges |-> "b", middle |-> "x"] }

\* a configuration, as the nested dictionary config.to_dict() hands to the cache:
\* detection_mode selects the detectors, processing.sample_rate the frames they are run
\* on, filtering.min_duration is read only after detection
Configs ==
    [ detection_mode : {"multimodal", "yolo"},
      processing_sample_rate : {15, 30},
      filtering_min_duration : {60, 180} ]

\* the fields the detection pass reads
DetectionFields == {"detection_mode", "processing_sample_rate"}

\* sha256 over size, mtime, first and last 64 KB (collisions of sha256 itself left out)
compute_video_hash(v) == <<v.size, v.mtime, v.edges>>

\* sha256 over detection_params; of the keys it looks up, the configuration holds
\* detection_mode, while 'sample_rate' is looked up at the top level, where the
\* configuration has no such key, and is hashed as null
compute_config_hash(c) == [detection_mode |-> c.detection_mode, sample_rate |-> "null"]

get_cache_key(v, c) == <<compute_video_hash(v), compute_config_hash(c)>>

DetectionData ==
    [ video_hash : {compute_video_hash(v) : v \in Videos},
      config_hash : {compute_config_hash(c) : c \in Configs},
      frame_count : {3, 6, 11} ]

KeyOf(d) == <<d.video_hash, d.config_hash>>

\* cache_file.stat().st_size, in GB
FileSize(blob) == IF blob = Truncated THEN 0 ELSE blob.frame_count

RECURSIVE TotalSize(_, _)
TotalSize(files, keys) ==
    IF keys = {} THEN 0
    ELSE LET k == CHOOSE x \in keys : TRUE
         IN  FileSize(files[k]) + TotalSize(files, keys \ {k})

Restrict(f, keys) == [k \in keys |-> f[k]]

\* the n entries with the smallest last_accessed
RECURSIVE OldestEntries(_, _)
OldestEntries(meta, n) ==
    IF n = 0 \/ DOMAIN meta = {} THEN {}
    ELSE LET k == CHOOSE x \in DOMAIN meta :
                     \A y \in DOMAIN meta : meta[x].last_accessed <= meta[y].last_accessed
         IN  {k} \cup OldestEntries(Restrict(meta, DOMAIN meta \ {k}), n - 1)

\* delete_cache for each key of a set: unlink the blob, drop the index entry
DeleteKeys(files, meta, keys) ==
    [ files |-> Restrict(files, DOMAIN files \ keys),
      meta |-> Restrict(meta, DOMAIN meta \ keys) ]

cleanup_if_needed_one_entry(files, meta) ==
    IF TotalSize(files, DOMAIN files) > MAX_CACHE_SIZE_GB
    THEN DeleteKeys(files, meta, OldestEntries(meta, 1))
    ELSE [files |-> files, meta |-> meta]

cleanup_if_needed(files, meta) ==
    IF TotalSize(files, DOMAIN files) > MAX_CACHE_SIZE_GB
    THEN LET remove_count == Max2(1, Cardinality(DOMAIN meta) \div 4)
         IN  DeleteKeys(files, meta, OldestEntries(meta, remove_count))
    ELSE [files |-> files, meta |-> meta]

Put(f, k, v) == [x \in DOMAIN f \cup {k} |-> IF x = k THEN v ELSE f[x]]

CmInit ==
    /\ cache_files = <<>>
    /\ metadata = <<>>
    /\ clock = 0
    /\ last_call = [op |-> "none"]

\* save_cache(d) returning True
SaveCache(d) ==
    /\ clock < MaxClock
    /\ LET files1 == Put(cache_files, KeyOf(d), d)
           meta1 == Put(metadata, KeyOf(d),
                        [last_accessed |-> clock, file_size |-> FileSize(d)])
           r == cleanup_if_needed(files1, meta1)
       IN  /\ cache_files' = r.files
           /\ metadata' = r.meta
    /\ clock' = clock + 1
    /\ last_call' = [op |-> "save_cache", data |-> d, result |-> TRUE]

\* save_cache(d) returning False: writing the blob raised, before or after the file was
\* opened for writing
SaveCacheFails(d, opened) ==
    /\ clock < MaxClock
    /\ cache_files' = IF opened THEN Put(cache_files, KeyOf(d), Truncated) ELSE cache_files
    /\ clock' = clock + 1
    /\ last_call' = [op |-> "save_cache", data |-> d, result |-> FALSE]
    /\ UNCHANGED metadata

LoadCache_refresh_before_parse(v, c) ==
    /\ clock < MaxClock
    /\ LET cache_key == get_cache_key(v, c)
       IN  /\ last_call' = [op |-> "load_cache", key |-> cache_key, config |-> c,
                            result |-> IF cache_key \notin DOMAIN cache_files
                                          \/ cache_files[cache_key] = Truncated
                                       THEN None ELSE cache_files[cache_key]]
           /\ metadata' = IF cache_key \in DOMAIN metadata
                          THEN [metadata EXCEPT ![cache_key].last_accessed = clock]
                          ELSE metadata
    /\ clock' = clock + 1
    /\ UNCHANGED cache_files

LoadCache(v, c) ==
    /\ clock < MaxClock
    /\ LET cache_key == get_cache_key(v, c)
       IN  IF cache_key \notin DOMAIN cache_files \/ cache_files[cache_key] = Truncated
           THEN /\ last_call' = [op |-> "load_cache", key |-> cache_key, config |-> c,
                                 result |-> None]
                /\ UNCHANGED metadata
           ELSE /\ last_call' = [op |-> "load_cache", key |-> cache_key, config |-> c,
                                 result |-> cache_files[cache_key]]
                /\ metadata' = IF cache_key \in DOMAIN metadata
                               THEN [metadata EXCEPT ![cache_key].last_accessed = clock]
                               ELSE metadata
    /\ clock' = clock + 1
    /\ UNCHANGED cache_files

DeleteCache(cache_key) ==
    /\ clock < MaxClock
    /\ LET r == DeleteKeys(cache_files, metadata, {cache_key})
       IN  /\ cache_files' = r.files
           /\ metadata' = r.meta
    /\ clock' = clock + 1
    /\ last_call' = [op |-> "delete_cache", key |-> cache_key, result |-> TRUE]

\* a CacheManager is constructed over the same directory while cache_metadata.json is
\* missing or unreadable: it starts with no entries, the blobs stay
LoadMetadataFails ==
    /\ clock < MaxClock
    /\ metadata # <<>>
    /\ metadata' = <<>>
    /\ clock' = clock + 1
    /\ last_call' = [op |-> "init"]
    /\ UNCHANGED cache_files

InitCache == CmInit /\ YoloIdle /\ CtIdle /\ PvIdle /\ SfIdle /\ RestIdle

NextCache ==
    \/ \E d \in DetectionData : SaveCache(d) /\ UNCHANGED <<yoloVars, ctVars, pvVars, sfVars, restVars>>
    \/ \E d \in DetectionData, opened \in BOOLEAN :
          SaveCacheFails(d, opened) /\ UNCHANGED <<yoloVars, ctVars, pvVars, sfVars, restVars>>
    \/ \E v \in Videos, c \in Configs :
          LoadCache(v, c) /\ UNCHANGED <<yoloVars, ctVars, pvVars, sfVars, restVars>>
    \/ \E v \in Videos, c \in Configs :
          DeleteCache(get_cache_key(v, c)) /\ UNCHANGED <<yoloVars, ctVars, pvVars, sfVars, restVars>>
    \/ LoadMetadataFails /\ UNCHANGED <<yoloVars, ctVars, pvVars, sfVars, restVars>>

SpecCache == InitCache /\ [][NextCache]_vars

\* C20 (as claimed): when save_cache(d) has returned True and the next call is
\* load_cache(v, c) for the video and configuration whose hashes d carries, that call
\* returns d.
C20_SaveThenLoadReturnsSaved ==
    [][ ( /\ last_call.op = "save_cache"
          /\ last_call.result
          /\ last_call'.op = "load_cache"
          /\ last_call'.key = KeyOf(last_call.data) )
        => last_call'.result = last_call.data ]_vars

\* the configurations a blob may have been created for
ConfigsOf(d) == {c \in Configs : compute_config_hash(c) = d.config_hash}

DiffersInDetectionField(c1, c2) == \E f \in DetectionFields : c1[f] # c2[f]

\* C21 (as claimed): when save_cache has returned True for data created for (v, c) and the
\* next call is load_cache(v, c2), the call returns absent if c2 differs from c in a field
\* that affects detection, and returns the saved data (if the save has kept its blob) if
\* c2 differs from c in other fields only.
C21_KeyFollowsDetectionFields ==
    [][ ( /\ last_call.op = "save_cache"
          /\ last_call.result
          /\ last_call'.op = "load_cache"
          /\ last_call'.key[1] = last_call.data.video_hash )
        => \A c \in ConfigsOf(last_call.data) :
              IF DiffersInDetectionField(c, last_call'.config)
              THEN last_call'.result = None
              ELSE KeyOf(last_call.data) \in DOMAIN cache_files
                      => last_call'.result = last_call.data ]_vars

(***************************************************************************)
(* Eviction: a manager constructed over a directory that earlier runs have *)
(* filled with 1 GB blobs, all of them indexed.                            *)
(***************************************************************************)
MaxEntries == 8
MaxEvictionCalls == 2

OldVideos == { [size |-> 10 + i, mtime |-> 1, edges |-> "a", middle |-> "x"] : i \in 1..MaxEntries }

OldConfig == [detection_mode |-> "multimodal", processing_sample_rate |-> 30,
              filtering_min_duration |-> 180]

OldKey(i) == <<<<10 + i, 1, "a">>, compute_config_hash(OldConfig)>>

OldBlob(i) == [video_hash |-> <<10 + i, 1, "a">>, config_hash |-> compute_config_hash(OldConfig),
               frame_count |-> 1]

\* the earlier runs used the videos in the order 1..n, or in the order n..1
OldAccess(i, n, ascending) == IF ascending THEN i - n - 1 ELSE 0 - i

InitEviction ==
    /\ \E n \in 0..MaxEntries, ascending \in BOOLEAN :
          /\ cache_files = [k \in {OldKey(i) : i \in 1..n} |->
                               OldBlob(CHOOSE i \in 1..n : OldKey(i) = k)]
          /\ metadata = [k \in {OldKey(i) : i \in 1..n} |->
                            [last_accessed |->
                                 OldAccess(CHOOSE i \in 1..n : OldKey(i) = k, n, ascending),
                             file_size |-> 1]]
    /\ clock = 0
    /\ last_call = [op |-> "none"]
    /\ YoloIdle /\ CtIdle /\ PvIdle /\ SfIdle /\ RestIdle

NextEviction ==
    \/ \E d \in DetectionData :
          clock < MaxEvictionCalls /\ SaveCache(d)
             /\ UNCHANGED <<yoloVars, ctVars, pvVars, sfVars, restVars>>
    \/ \E d \in DetectionData, opened \in BOOLEAN :
          clock < MaxEvictionCalls /\ SaveCacheFails(d, opened)
             /\ UNCHANGED <<yoloVars, ctVars, pvVars, sfVars, restVars>>
    \/ \E v \in Videos \cup OldVideos :
          clock < MaxEvictionCalls /\ LoadCache(v, OldConfig)
             /\ UNCHANGED <<yoloVars, ctVars, pvVars, sfVars, restVars>>

SpecEviction == InitEviction /\ [][NextEviction]_vars

\* the entries other than k are the same in both indexes, as far as the second has them
SameEntriesExcept(meta1, meta2, k) ==
    \A x \in DOMAIN meta2 \ {k} : x \in DOMAIN meta1 /\ meta2[x] = meta1[x]

\* C22: a save_cache that returns True removes index entries only if the blobs, the new
\* one included, total more than the ceiling; it then removes max(1, n div 4) of the n
\* indexed entries together with their blobs, and every removed entry was accessed no
\* later than every retained one. An entry's last_accessed is the time of the save_cache
\* that wrote it or of the last load_cache that returned its data; load_cache and a failed
\* save_cache remove nothing.
C22_LeastRecentlyAccessedEviction ==
    [][ /\ (last_call'.op = "save_cache" /\ last_call'.result) =>
            LET d == last_call'.data
                k == KeyOf(d)
                indexed == Put(metadata, k, [last_accessed |-> clock, file_size |-> FileSize(d)])
                blobs == Put(cache_files, k, d)
                removed == DOMAIN indexed \ DOMAIN metadata'
                n == Cardinality(DOMAIN indexed)
            IN  /\ DOMAIN metadata' \subseteq DOMAIN indexed
                /\ SameEntriesExcept(indexed, metadata', k)
                /\ k \in DOMAIN metadata' => metadata'[k] = indexed[k]
                /\ IF TotalSize(blobs, DOMAIN blobs) <= MAX_CACHE_SIZE_GB
                   THEN removed = {} /\ cache_files' = blobs
                   ELSE /\ Cardinality(removed) = (IF n < 4 THEN 1 ELSE n \div 4)
                        /\ removed \cap DOMAIN cache_files' = {}
                        /\ \A r \in removed, x \in DOMAIN metadata' :
                              indexed[r].last_accessed <= metadata'[x].last_accessed
        /\ (last_call'.op = "save_cache" /\ ~last_call'.result) => metadata' = metadata
        /\ last_call'.op = "load_cache" =>
              /\ DOMAIN metadata' = DOMAIN metadata
              /\ SameEntriesExcept(metadata, metadata', last_call'.key)
              /\ last_call'.key \in DOMAIN metadata =>
                    metadata'[last_call'.key].last_accessed =
                        (IF last_call'.result = None
                         THEN metadata[last_call'.key].last_accessed ELSE clock)
              /\ cache_files' = cache_files ]_vars

\* a load_cache has refreshed an old entry, and the save_cache of a 6 GB blob after it has
\* evicted two of the nine entries and kept the refreshed one
C22_Witness ==
    /\ clock = 2
    /\ last_call.op = "save_cache" /\ last_call.result
    /\ last_call.data.frame_count = 6
    /\ Cardinality(DOMAIN metadata) = 7
    /\ KeyOf(last_call.data) \in DOMAIN metadata
    /\ \E k \in DOMAIN metadata : k # KeyOf(last_call.data) /\ metadata[k].last_accessed = 0

(***************************************************************************)
(* The index file.  Every CacheManager reads cache_metadata.json once, in  *)
(* its constructor, and from then on writes the whole of its own           *)
(* self.metadata to the file after each change.                            *)
(***************************************************************************)
NumManagers == 2
MaxSharedCalls == 4

Managers == 1..NumManagers

\* contents of cache_metadata.json: no file, text that json.load rejects, a JSON document
\* without an 'entries' object, or an index
Missing == [kind |-> "missing"]
Unparseable == [kind |-> "unparseable"]
NoEntries == [kind |-> "no_entries"]
Index(entries) == [kind |-> "index", entries |-> entries]

Raised == [raised |-> TRUE]

\* what json.load returns is returned as it is
load_metadata(file) ==
    IF file.kind \in {"missing", "unparseable"} THEN Index(<<>>) ELSE file

\* CacheManager(cache_dir)
Construct(m) ==
    /\ clock < MaxSharedCalls
    /\ m \notin DOMAIN managers
    /\ managers' = Put(managers, m, load_metadata(index_file))
    /\ clock' = clock + 1
    /\ last_call' = [op |-> "init", manager |-> m]
    /\ UNCHANGED <<cache_files, index_file, metadata>>

\* managers[m].save_cache(d): with no 'entries' in self.metadata the update of the entry
\* raises after the blob was written, and save_cache returns False
ManagerSaveCache(m, d) ==
    /\ clock < MaxSharedCalls
    /\ m \in DOMAIN managers
    /\ LET files1 == Put(cache_files, KeyOf(d), d)
       IN  IF managers[m].kind = "no_entries"
           THEN /\ cache_files' = files1
                /\ last_call' = [op |-> "save_cache", manager |-> m, data |-> d,
                                 result |-> FALSE]
                /\ UNCHANGED <<managers, index_file>>
           ELSE LET meta1 == Put(managers[m].entries, KeyOf(d),
                                 [last_accessed |-> clock, file_size |-> FileSize(d)])
                    r == cleanup_if_needed(files1, meta1)
                IN  /\ cache_files' = r.files
                    /\ managers' = [managers EXCEPT ![m] = Index(r.meta)]
                    /\ index_file' = Index(r.meta)
                    /\ last_call' = [op |-> "save_cache", manager |-> m, data |-> d,
                                     result |-> TRUE]
    /\ clock' = clock + 1
    /\ UNCHANGED metadata

\* managers[m].load_cache(v, c): the index is consulted after the blob was unpickled
ManagerLoadCache(m, v, c) ==
    /\ clock < MaxSharedCalls
    /\ m \in DOMAIN managers
    /\ LET cache_key == get_cache_key(v, c)
           call == [op |-> "load_cache", manager |-> m, key |-> cache_key, config |-> c]
       IN  IF cache_key \notin DOMAIN cache_files \/ cache_files[cache_key] = Truncated
           THEN /\ last_call' = call @@ [result |-> None]
                /\ UNCHANGED <<managers, index_file>>
           ELSE IF managers[m].kind = "no_entries"
           THEN /\ last_call' = call @@ [result |-> None]
                /\ UNCHANGED <<managers, index_file>>
           ELSE IF cache_key \in DOMAIN managers[m].entries
           THEN LET meta1 == [managers[m].entries EXCEPT ![cache_key].last_accessed = clock]
                IN  /\ managers' = [managers EXCEPT ![m] = Index(meta1)]
                    /\ index_file' = Index(meta1)
                    /\ last_call' = call @@ [result |-> cache_files[cache_key]]
           ELSE /\ last_call' = call @@ [result |-> cache_files[cache_key]]
                /\ UNCHANGED <<managers, index_file>>
    /\ clock' = clock + 1
    /\ UNCHANGED <<cache_files, metadata>>

\* managers[m].delete_cache(cache_key): the blob is unlinked before the index is consulted
ManagerDeleteCache(m, cache_key) ==
    /\ clock < MaxSharedCalls
    /\ m \in DOMAIN managers
    /\ cache_files' = Restrict(cache_files, DOMAIN cache_files \ {cache_key})
    /\ IF managers[m].kind = "no_entries"
       THEN /\ last_call' = [op |-> "delete_cache", manager |-> m, key |-> cache_key,
                             result |-> FALSE]
            /\ UNCHANGED <<managers, index_file>>
       ELSE /\ last_call' = [op |-> "delete_cache", manager |-> m, key |-> cache_key,
                             result |-> TRUE]
            /\ IF cache_key \in DOMAIN managers[m].entries
               THEN LET meta1 == Restrict(managers[m].entries,
                                          DOMAIN managers[m].entries \ {cache_key})
                    IN  /\ managers' = [managers EXCEPT ![m] = Index(meta1)]
                        /\ index_file' = Index(meta1)
               ELSE UNCHANGED <<managers, index_file>>
    /\ clock' = clock + 1
    /\ UNCHANGED metadata

\* managers[m].get_cache_stats(): nothing catches what self.metadata['entries'] raises
ManagerGetCacheStats(m) ==
    /\ clock < MaxSharedCalls
    /\ m \in DOMAIN managers
    /\ last_call' = [op |-> "get_cache_stats", manager |-> m,
                     result |-> IF managers[m].kind = "no_entries"
                                THEN Raised
                                ELSE [entry_count |-> Cardinality(DOMAIN managers[m].entries),
                                      total_size |-> TotalSize(cache_files, DOMAIN cache_files)]]
    /\ clock' = clock + 1
    /\ UNCHANGED <<cache_files, metadata, managers, index_file>>

notIx == <<yoloVars, ctVars, pvVars, sfVars, crVars, cfVars, znVars, taVars>>

\* an empty cache directory that NumManagers managers come to share
InitShared ==
    /\ cache_files = <<>>
    /\ index_file = Missing
    /\ managers = <<>>
    /\ metadata = <<>>
    /\ clock = 0
    /\ last_call = [op |-> "none"]
    /\ YoloIdle /\ CtIdle /\ PvIdle /\ SfIdle /\ CrInit /\ CfInit /\ ZnInit /\ TaIdle

NextShared ==
    \/ \E m \in Managers : Construct(m) /\ UNCHANGED notIx
    \/ \E m \in Managers, d \in DetectionData : ManagerSaveCache(m, d) /\ UNCHANGED notIx
    \/ \E m \in Managers, v \in Videos, c \in Configs :
          ManagerLoadCache(m, v, c) /\ UNCHANGED notIx
    \/ \E m \in Managers, v \in Videos, c \in Configs :
          ManagerDeleteCache(m, get_cache_key(v, c)) /\ UNCHANGED notIx

SpecShared == InitShared /\ [][NextShared]_vars

\* C23 (as claimed): with managers sharing one cache directory, the index on disk has an
\* entry for every blob that was saved and not deleted, whatever the order of the
\* managers' save_cache, load_cache and delete_cache calls.
C23_IndexHasEveryBlob ==
    \A k \in DOMAIN cache_files :
        cache_files[k] # Truncated =>
            index_file.kind = "index" /\ k \in DOMAIN index_file.entries

(***************************************************************************)
(* One manager constructed over a directory whose index file is missing,   *)
(* unparseable, or parseable but not an index.  An earlier run may have    *)
(* left a valid blob.                                                      *)
(***************************************************************************)
LeftBlob == [video_hash |-> <<1, 1, "a">>,
             config_hash |-> [detection_mode |-> "yolo", sample_rate |-> "null"],
             frame_count |-> 3]

InitDamaged ==
    /\ cache_files \in {<<>>, Put(<<>>, KeyOf(LeftBlob), LeftBlob)}
    /\ index_file \in {Missing, Unparseable, NoEntries}
    /\ managers = <<>>
    /\ metadata = <<>>
    /\ clock = 0
    /\ last_call = [op |-> "none"]
    /\ YoloIdle /\ CtIdle /\ PvIdle /\ SfIdle /\ CrInit /\ CfInit /\ ZnInit /\ TaIdle

NextDamaged ==
    \/ Construct(1) /\ UNCHANGED notIx
    \/ \E d \in DetectionData : ManagerSaveCache(1, d) /\ UNCHANGED notIx
    \/ \E v \in Videos, c \in Configs : ManagerLoadCache(1, v, c) /\ UNCHANGED notIx
    \/ \E v \in Videos, c \in Configs :
          ManagerDeleteCache(1, get_cache_key(v, c)) /\ UNCHANGED notIx
    \/ ManagerGetCacheStats(1) /\ UNCHANGED notIx

SpecDamaged == InitDamaged /\ [][NextDamaged]_vars

\* C24 (as claimed): a manager constructed over a missing, unparseable or malformed index
\* file raises nothing from get_cache_stats, and its load_cache of a key whose blob is on
\* disk and valid returns that blob's data.
C24_DamagedIndexIsEmptyIndex ==
    [][ /\ last_call'.op = "get_cache_stats" => last_call'.result # Raised
        /\ ( /\ last_call'.op = "load_cache"
             /\ last_call'.key \in DOMAIN cache_files
             /\ cache_files[last_call'.key] # Truncated )
           => last_call'.result = cache_files[last_call'.key] ]_vars

\* C25: load_cache returns either None or the data of a blob; when the blob of the
\* requested key cannot be unpickled it returns None and leaves the index entries and all
\* blobs as they were.
C25_UnparseableBlobIsAbsent ==
    [][ last_call'.op = "load_cache" =>
          /\ last_call'.result = None \/ last_call'.result \in DetectionData
          /\ ( last_call'.key \in DOMAIN cache_files
               /\ cache_files[last_call'.key] = Truncated )
             => /\ last_call'.result = None
                /\ metadata' = metadata
                /\ cache_files' = cache_files ]_vars

\* load_cache has just returned None for a key that has an index entry and a truncated
\* blob, next to a valid blob of another key
C25_Witness ==
    /\ last_call.op = "load_cache"
    /\ last_call.result = None
    /\ last_call.key \in DOMAIN cache_files
    /\ cache_files[last_call.key] = Truncated
    /\ last_call.key \in DOMAIN metadata
    /\ \E k \in DOMAIN cache_files : cache_files[k] # Truncated

(***************************************************************************)
(* ContextualTransitionRules (src/context_rules.py): the heuristic state   *)
(* machine.  Times are whole seconds.                                      *)
(***************************************************************************)
MaxUpdates == 5

typical_intro_duration == 10
min_performance_duration == 30

PerformanceState ==
    {"empty_stage", "host_intro", "comedian_entering", "comedian_performing",
     "host_outro", "transition", "applause"}

\* seconds between two update_state calls
TimeSteps == {5, 10, 30}

\* (person_count, identities) of an update_state call
Observations ==
    { <<0, <<>>>>, <<1, <<>>>>, <<1, <<1>>>>, <<1, <<2>>>>, <<2, <<1, 2>>>>, <<3, <<>>>> }

\* self.person_roles.get(id, default)
RoleOf(roles, id, default) == IF id \in DOMAIN roles THEN roles[id] ELSE default

RolesOf(roles, identities) == {RoleOf(roles, identities[i], "unknown") : i \in DOMAIN identities}

determine_state(person_count, identities, prev_state, duration, roles) ==
    IF person_count = 0 THEN "empty_stage"
    ELSE IF person_count = 1
    THEN LET role == IF identities = <<>> THEN "none"
                     ELSE RoleOf(roles, identities[1], "none")
         IN  IF prev_state = "empty_stage"
             THEN IF role = "host" THEN "host_intro"
                  ELSE IF role = "comedian" THEN "comedian_performing"
                  ELSE IF duration < typical_intro_duration THEN "host_intro"
                  ELSE "comedian_performing"
             ELSE IF prev_state = "host_intro"
             THEN IF duration > typical_intro_duration * 2 THEN "comedian_performing"
                  ELSE "host_intro"
             ELSE "comedian_performing"
    ELSE IF person_count = 2
    THEN IF {"host", "comedian"} \subseteq RolesOf(roles, identities)
         THEN IF prev_state = "comedian_performing" THEN "host_outro"
              ELSE IF prev_state = "empty_stage" THEN "comedian_entering"
              ELSE "transition"
         ELSE IF prev_state = "host_intro" THEN "comedian_entering"
         ELSE IF prev_state = "comedian_performing" THEN "host_outro"
         ELSE "transition"
    ELSE IF prev_state = "comedian_performing" THEN "applause"
    ELSE "transition"

start_conditions(old_state, new_state) ==
    \/ old_state = "comedian_entering" /\ new_state = "comedian_performing"
    \/ old_state = "empty_stage" /\ new_state = "comedian_performing"
    \/ old_state = "transition" /\ new_state = "comedian_performing"

end_conditions(old_state, new_state) ==
    \/ old_state = "comedian_performing" /\ new_state = "host_outro"
    \/ old_state = "comedian_performing" /\ new_state = "empty_stage"
    \/ old_state = "comedian_performing" /\ new_state = "applause"

\* the segment and the recorded segments that _check_segment_boundary leaves
check_segment_boundary_no_validation(old_state, new_state, timestamp, segment, recorded) ==
    IF start_conditions(old_state, new_state)
    THEN [ segment |-> IF segment = NoSegment
                       THEN [start_time |-> timestamp, start_state |-> new_state]
                       ELSE segment,
           recorded |-> recorded ]
    ELSE IF end_conditions(old_state, new_state) /\ segment # NoSegment
    THEN [ segment |-> NoSegment,
           recorded |-> Append(recorded, segment @@ [end_time |-> timestamp,
                                   end_state |-> old_state,
                                   duration |-> timestamp - segment.start_time]) ]
    ELSE [segment |-> segment, recorded |-> recorded]

check_segment_boundary(old_state, new_state, timestamp, segment, recorded) ==
    IF start_conditions(old_state, new_state)
    THEN [ segment |-> IF segment = NoSegment
                       THEN [start_time |-> timestamp, start_state |-> new_state]
                       ELSE segment,
           recorded |-> recorded ]
    ELSE IF end_conditions(old_state, new_state) /\ segment # NoSegment
    THEN LET duration == timestamp - segment.start_time
             closed == segment @@ [end_time |-> timestamp, end_state |-> old_state,
                                   duration |-> duration]
         IN  [ segment |-> NoSegment,
               recorded |-> IF duration >= min_performance_duration
                            THEN Append(recorded, closed) ELSE recorded ]
    ELSE [segment |-> segment, recorded |-> recorded]

\* update_state(person_count, identities, timestamp)
UpdateState(person_count, identities, timestamp) ==
    LET duration == IF current_state # "empty_stage"
                    THEN timestamp - state_start_time ELSE state_duration
        prev_state == current_state
        new_state == determine_state(person_count, identities, prev_state, duration,
                                     person_roles)
    IN  /\ last_update' = [person_count |-> person_count, identities |-> identities,
                           timestamp |-> timestamp, call |-> last_update.call + 1]
        /\ IF new_state # current_state
           THEN LET r == check_segment_boundary(prev_state, new_state, timestamp,
                                                current_segment, performance_segments)
                IN  /\ current_state' = new_state
                    /\ state_start_time' = timestamp
                    /\ state_duration' = 0
                    /\ current_segment' = r.segment
                    /\ performance_segments' = r.recorded
           ELSE /\ state_duration' = duration
                /\ UNCHANGED <<current_state, state_start_time, current_segment,
                               performance_segments>>
        /\ UNCHANGED person_roles

\* (person_id, duration_on_stage, entry_count, avg_duration) of a learn_person_role call
Appearances == { <<1, 10, 3, 10>>, <<2, 130, 1, 130>>, <<2, 40, 2, 40>> }

learned_role(roles, person_id, duration_on_stage, entry_count, avg_duration) ==
    IF entry_count > 2 /\ avg_duration < 30 THEN Put(roles, person_id, "host")
    ELSE IF entry_count <= 2 /\ avg_duration > 60 THEN Put(roles, person_id, "comedian")
    ELSE IF duration_on_stage > 120 THEN Put(roles, person_id, "comedian")
    ELSE IF duration_on_stage < 15 /\ entry_count > 1 THEN Put(roles, person_id, "host")
    ELSE roles

LearnPersonRole(person_id, duration_on_stage, entry_count, avg_duration) ==
    /\ person_roles' = learned_role(person_roles, person_id, duration_on_stage, entry_count,
                                    avg_duration)
    /\ UNCHANGED <<current_state, state_start_time, state_duration, current_segment,
                   performance_segments, last_update>>

notCr == <<yoloVars, ctVars, pvVars, sfVars, cmVars, ixVars, cfVars, znVars, taVars>>

InitRules ==
    CrInit /\ YoloIdle /\ CtIdle /\ PvIdle /\ SfIdle /\ CmIdle /\ IxIdle /\ CfInit /\ ZnInit
    /\ TaIdle

NextRules ==
    \/ \E o \in Observations, dt \in TimeSteps :
          /\ last_update.call < MaxUpdates
          /\ UpdateState(o[1], o[2], last_update.timestamp + dt)
          /\ UNCHANGED notCr
    \/ \E a \in Appearances :
          LearnPersonRole(a[1], a[2], a[3], a[4]) /\ UNCHANGED notCr

SpecRules == InitRules /\ [][NextRules]_vars

OpeningTransitions ==
    { <<"comedian_entering", "comedian_performing">>,
      <<"empty_stage", "comedian_performing">>,
      <<"transition", "comedian_performing">> }

ClosingTransitions ==
    { <<"comedian_performing", "host_outro">>,
      <<"comedian_performing", "empty_stage">>,
      <<"comedian_performing", "applause">> }

SegmentOpened == current_segment = NoSegment /\ current_segment' # NoSegment
SegmentClosed == current_segment # NoSegment /\ current_segment' = NoSegment

\* C26: a candidate segment is opened exactly on an opening transition taken while none is
\* open, and closed exactly on a closing transition taken while one is open; an open
\* candidate is otherwise left as it is; a closed candidate is appended to the recorded
\* segments if and only if it lasted at least min_performance_duration, and every
\* recorded segment lasts at least that long.
C26_SegmentsOpenAndCloseOnListedTransitions ==
    [][ /\ SegmentOpened <=>
              (current_segment = NoSegment
                  /\ <<current_state, current_state'>> \in OpeningTransitions)
        /\ SegmentClosed <=>
              (current_segment # NoSegment
                  /\ <<current_state, current_state'>> \in ClosingTransitions)
        /\ SegmentOpened => current_segment'.start_time = last_update'.timestamp
        /\ (current_segment # NoSegment /\ ~SegmentClosed) => current_segment' = current_segment
        /\ IF SegmentClosed
              /\ last_update'.timestamp - current_segment.start_time >= min_performance_duration
           THEN /\ Len(performance_segments') = Len(performance_segments) + 1
                /\ SubSeq(performance_segments', 1, Len(performance_segments))
                      = performance_segments
                /\ performance_segments'[Len(performance_segments')].start_time
                      = current_segment.start_time
                /\ performance_segments'[Len(performance_segments')].end_time
                      = last_update'.timestamp
           ELSE performance_segments' = performance_segments
        /\ \A i \in DOMAIN performance_segments' :
              performance_segments'[i].end_time - performance_segments'[i].start_time
                  >= min_performance_duration ]_vars

\* a candidate of exactly the minimum duration was closed and recorded, and another is open
C26_Witness ==
    /\ Len(performance_segments) = 1
    /\ performance_segments[1].duration = min_performance_duration
    /\ current_segment # NoSegment

UnknownRole(identities) == identities = <<>> \/ identities[1] \notin DOMAIN person_roles

\* C27 (as claimed): when update_state sees one person of unknown role while the state is
\* empty_stage, the new state is host_intro if the empty stage has lasted less than
\* typical_intro_duration at the call's timestamp, and comedian_performing otherwise.
C27_UnknownPersonByElapsedDuration ==
    [][ ( /\ last_update'.call = last_update.call + 1
          /\ current_state = "empty_stage"
          /\ last_update'.person_count = 1
          /\ UnknownRole(last_update'.identities) )
        => current_state' =
              IF last_update'.timestamp - state_start_time < typical_intro_duration
              THEN "host_intro" ELSE "comedian_performing" ]_vars

(***************************************************************************)
(* ConfidenceBasedDetector (src/confidence_detector.py): fusion of the     *)
(* detection signals of a person.  The floats of the code are exact        *)
(* fractions <<numerator, denominator>> in lowest terms.                   *)
(***************************************************************************)
MaxSignals == 6
MaxConfidenceCalls == 2

RECURSIVE GCD(_, _)
GCD(a, b) == IF b = 0 THEN a ELSE GCD(b, a % b)

Rat(n, d) == LET g == GCD(n, d) IN <<n \div g, d \div g>>

RAdd(p, q) ==
    LET l == (p[2] \div GCD(p[2], q[2])) * q[2]
    IN  Rat(p[1] * (l \div p[2]) + q[1] * (l \div q[2]), l)

\* p - q, for p >= q
RSub(p, q) ==
    LET l == (p[2] \div GCD(p[2], q[2])) * q[2]
    IN  Rat(p[1] * (l \div p[2]) - q[1] * (l \div q[2]), l)

RMul(p, q) ==
    LET a == Rat(p[1], q[2])
        b == Rat(q[1], p[2])
    IN  <<a[1] * b[1], a[2] * b[2]>>

\* p / q, for q > 0
RDiv(p, q) == RMul(p, <<q[2], q[1]>>)

RECURSIVE RPow(_, _)
RPow(p, n) == IF n = 0 THEN <<1, 1>> ELSE RMul(p, RPow(p, n - 1))

RECURSIVE RSum(_)
RSum(seq) == IF seq = <<>> THEN <<0, 1>> ELSE RAdd(Head(seq), RSum(Tail(seq)))

\* np.mean
RMean(seq) == RDiv(RSum(seq), <<Len(seq), 1>>)

SignalTypes == <<"position", "velocity", "zone", "appearance", "context">>

\* 0.15, 0.25, 0.20, 0.20, 0.20
signal_weights ==
    [ position |-> <<3, 20>>, velocity |-> <<1, 4>>, zone |-> <<1, 5>>,
      appearance |-> <<1, 5>>, context |-> <<1, 5>> ]

confidence_decay == <<19, 20>>

\* the smoothing of calculate_exit_confidence: 0.7 and 0.3
SmoothingNew == <<7, 10>>
SmoothingOld == <<3, 10>>

SignalsMaxLen == 30
RecentSignals == 5

\* signals as update_zone_signal and update_velocity_signal build them: outside the zone
\* with full confidence, on its boundary with confidence 0.5, and moving fast towards an
\* edge
SignalInputs ==
    { [signal_type |-> "zone", value |-> <<1, 1>>, confidence |-> <<1, 1>>],
      [signal_type |-> "zone", value |-> <<1, 2>>, confidence |-> <<1, 2>>],
      [signal_type |-> "velocity", value |-> <<1, 1>>, confidence |-> <<1, 1>>] }

PersonIds == {1, 2}

\* time.time() - last_update, in whole seconds
WallClockDelays == {0, 2}

\* deque(maxlen).append
DequeAppend(q, x, maxlen) ==
    IF Len(q) < maxlen THEN Append(q, x) ELSE Append(Tail(q), x)

LastN(seq, n) == IF Len(seq) <= n THEN seq ELSE SubSeq(seq, Len(seq) - n + 1, Len(seq))

OfType(signals, t) == SelectSeq(signals, LAMBDA sg : sg.signal_type = t)

ProductsOf(signals) == [i \in DOMAIN signals |-> RMul(signals[i].value, signals[i].confidence)]
ConfidencesOf(signals) == [i \in DOMAIN signals |-> signals[i].confidence]

\* weighted_scores[signal_type]
weighted_score(signals, t) ==
    LET recent_signals == LastN(OfType(signals, t), RecentSignals)
        avg_value == RMean(ProductsOf(recent_signals))
        avg_confidence == RMean(ConfidencesOf(recent_signals))
    IN  RMul(RMul(avg_value, avg_confidence), signal_weights[t])

ActiveTypes(signals) == SelectSeq(SignalTypes, LAMBDA t : OfType(signals, t) # <<>>)

\* the exit_confidence of lines 311-315
raw_exit_confidence(signals) ==
    LET active == ActiveTypes(signals)
        total_weight == RSum([i \in DOMAIN active |-> signal_weights[active[i]]])
        scores == RSum([i \in DOMAIN active |-> weighted_score(signals, active[i])])
    IN  IF total_weight[1] > 0 THEN RDiv(scores, total_weight) ELSE <<0, 1>>

\* the value calculate_exit_confidence returns
exit_confidence_of(states, person_id) ==
    IF person_id \notin DOMAIN states \/ states[person_id].signals = <<>>
    THEN <<0, 1>>
    ELSE RAdd(RMul(SmoothingNew, raw_exit_confidence(states[person_id].signals)),
              RMul(SmoothingOld, states[person_id].exit_confidence))

\* person_states after calculate_exit_confidence
after_exit_confidence(states, person_id) ==
    IF person_id \notin DOMAIN states \/ states[person_id].signals = <<>>
    THEN states
    ELSE [states EXCEPT ![person_id].exit_confidence = exit_confidence_of(states, person_id)]

\* the value calculate_stage_presence_confidence computes for a person with a state, when
\* time.time() is delay seconds after the person's last_update
stage_confidence_of(states, person_id, delay) ==
    LET stage_confidence == RSub(<<1, 1>>, exit_confidence_of(states, person_id))
    IN  IF delay > 1
        THEN RMul(stage_confidence, RPow(confidence_decay, delay))
        ELSE stage_confidence

\* add_signal(person_id, signal)
AddSignal(person_id, signal, timestamp) ==
    /\ LET sg == signal @@ [timestamp |-> timestamp]
           state == IF person_id \in DOMAIN person_states
                    THEN person_states[person_id]
                    ELSE [signals |-> <<>>, exit_confidence |-> <<0, 1>>,
                          stage_confidence |-> <<1, 1>>, last_update |-> timestamp]
       IN  person_states' =
               Put(person_states, person_id,
                   [state EXCEPT !.signals = DequeAppend(state.signals, sg, SignalsMaxLen),
                                 !.last_update = timestamp])
    /\ UNCHANGED confidence_call

\* calculate_exit_confidence(person_id)
CalculateExitConfidence(person_id) ==
    /\ confidence_call' = [op |-> "calculate_exit_confidence", person_id |-> person_id,
                           result |-> exit_confidence_of(person_states, person_id),
                           calls |-> confidence_call.calls + 1]
    /\ person_states' = after_exit_confidence(person_states, person_id)

\* calculate_stage_presence_confidence(person_id), called when time.time() is delay seconds
\* after the person's last_update; for a person without a state the store of line 348 raises
CalculateStagePresenceConfidence(person_id, delay) ==
    IF person_id \notin DOMAIN person_states
    THEN /\ confidence_call' = [op |-> "calculate_stage_presence_confidence",
                                person_id |-> person_id, delay |-> delay,
                                result |-> Raised, calls |-> confidence_call.calls + 1]
         /\ UNCHANGED person_states
    ELSE LET stage_confidence == stage_confidence_of(person_states, person_id, delay)
             states1 == after_exit_confidence(person_states, person_id)
         IN  /\ confidence_call' = [op |-> "calculate_stage_presence_confidence",
                                    person_id |-> person_id, delay |-> delay,
                                    result |-> stage_confidence,
                                    calls |-> confidence_call.calls + 1]
             /\ person_states' =
                    [states1 EXCEPT ![person_id].stage_confidence = stage_confidence]

notCf == <<yoloVars, ctVars, pvVars, sfVars, cmVars, ixVars, crVars, znVars, taVars>>

InitConfidence ==
    CfInit /\ YoloIdle /\ CtIdle /\ PvIdle /\ SfIdle /\ CmIdle /\ IxIdle /\ CrInit /\ ZnInit
    /\ TaIdle

SignalsAdded == IF 1 \in DOMAIN person_states THEN Len(person_states[1].signals) ELSE 0

\* the signals are those of person 1, one per second of video
NextConfidence ==
    \/ \E signal \in SignalInputs :
          /\ SignalsAdded < MaxSignals
          /\ AddSignal(1, signal, SignalsAdded + 1)
          /\ UNCHANGED notCf
    \/ \E id \in PersonIds :
          /\ confidence_call.calls < MaxConfidenceCalls
          /\ CalculateExitConfidence(id)
          /\ UNCHANGED notCf
    \/ \E id \in PersonIds, delay \in WallClockDelays :
          /\ confidence_call.calls < MaxConfidenceCalls
          /\ CalculateStagePresenceConfidence(id, delay)
          /\ UNCHANGED notCf

SpecConfidence == InitConfidence /\ [][NextConfidence]_vars

\* the raw exit confidence as claimed: per type with samples, the weight times the mean of
\* value * confidence over the type's most recent five samples, over the sum of the weights
ClaimedRawExitConfidence(signals) ==
    LET active == ActiveTypes(signals)
        weights == [i \in DOMAIN active |-> signal_weights[active[i]]]
        means == [i \in DOMAIN active |->
                     RMean(ProductsOf(LastN(OfType(signals, active[i]), 5)))]
    IN  RDiv(RSum([i \in DOMAIN active |-> RMul(weights[i], means[i])]), RSum(weights))

\* C28 (as claimed): for a person with signals, calculate_exit_confidence returns
\* 0.7 * raw + 0.3 * previous, where raw is the weighted mean above and previous is the
\* exit confidence stored by the previous call.
C28_FusedExitConfidence ==
    [][ ( /\ confidence_call'.calls = confidence_call.calls + 1
          /\ confidence_call'.op = "calculate_exit_confidence"
          /\ confidence_call'.person_id \in DOMAIN person_states )
        => LET state == person_states[confidence_call'.person_id]
           IN  confidence_call'.result =
                  RAdd(RMul(<<7, 10>>, ClaimedRawExitConfidence(state.signals)),
                       RMul(<<3, 10>>, state.exit_confidence)) ]_vars

\* C29 (as claimed): the value calculate_stage_presence_confidence returns for a person
\* with signals is the one it would return at any other wall-clock time.
C29_StagePresenceIgnoresWallClock ==
    [][ ( /\ confidence_call'.calls = confidence_call.calls + 1
          /\ confidence_call'.op = "calculate_stage_presence_confidence"
          /\ confidence_call'.person_id \in DOMAIN person_states )
        => \A delay \in WallClockDelays :
              stage_confidence_of(person_states, confidence_call'.person_id, delay)
                 = confidence_call'.result ]_vars

(***************************************************************************)
(* FlexibleZoneConfig (src/zone_config.py): the stage zone and its two     *)
(* tests.  Coordinates are integers on a grid of GridSize + 1 lines, in    *)
(* units of 0.05; the safe and danger zones are set with the stage zone.   *)
(* A distance is either a fraction [num, den] with den > 0, or, for a      *)
(* polygon, [side, squared]: side times the square root of the fraction    *)
(* squared.                                                                *)
(***************************************************************************)
GridSize == 6

Grid == 0..GridSize

\* (left, right, top, bottom); the last one has its sides swapped
Rectangles == { <<1, 5, 2, 4>>, <<2, 4, 0, 6>>, <<3, 3, 1, 5>>, <<5, 1, 2, 4>> }

\* a triangle, a square given clockwise, and a concave quadrilateral
Polygons ==
    { << <<1, 1>>, <<5, 1>>, <<3, 5>> >>,
      << <<1, 1>>, <<1, 4>>, <<4, 4>>, <<4, 1>> >>,
      << <<0, 0>>, <<6, 0>>, <<3, 2>>, <<3, 6>> >> }

\* (center_x, center_y, width, height)
Ellipses == { <<3, 3, 4, 2>>, <<3, 3, 2, 6>>, <<2, 4, 4, 4>> }

\* the left-hand side of the ellipse test, times (width * height)^2 / 4:
\* ((x - cx) / (width / 2))^2 + ((y - cy) / (height / 2))^2, cross-multiplied
EllipseValueNum(b, x, y) ==
    4 * (x - b[1]) * (x - b[1]) * b[4] * b[4] + 4 * (y - b[2]) * (y - b[2]) * b[3] * b[3]

EllipseValueDen(b) == b[3] * b[3] * b[4] * b[4]

\* cv2.pointPolygonTest: the point against the edge from a to b
Cross(a, b, p) == (b[1] - a[1]) * (p[2] - a[2]) - (p[1] - a[1]) * (b[2] - a[2])

OnEdge(a, b, p) ==
    /\ Cross(a, b, p) = 0
    /\ Min2(a[1], b[1]) <= p[1] /\ p[1] <= Max2(a[1], b[1])
    /\ Min2(a[2], b[2]) <= p[2] /\ p[2] <= Max2(a[2], b[2])

\* the edge crosses the horizontal ray from p to the right
CrossesRay(a, b, p) ==
    \/ a[2] <= p[2] /\ p[2] < b[2] /\ Cross(a, b, p) > 0
    \/ b[2] <= p[2] /\ p[2] < a[2] /\ Cross(a, b, p) < 0

NextVertex(pts, i) == pts[(i % Len(pts)) + 1]

\* +1 inside, 0 on an edge, -1 outside
PolygonSide(pts, p) ==
    IF \E i \in DOMAIN pts : OnEdge(pts[i], NextVertex(pts, i), p) THEN 0
    ELSE IF Cardinality({i \in DOMAIN pts : CrossesRay(pts[i], NextVertex(pts, i), p)}) % 2 = 1
    THEN 1 ELSE -1

\* squared distance from p to the edge from a to b, as a fraction
EdgeDistanceSquared(a, b, p) ==
    LET dx == b[1] - a[1]
        dy == b[2] - a[2]
        t == (p[1] - a[1]) * dx + (p[2] - a[2]) * dy
        len2 == dx * dx + dy * dy
    IN  IF t <= 0
        THEN <<(p[1] - a[1]) * (p[1] - a[1]) + (p[2] - a[2]) * (p[2] - a[2]), 1>>
        ELSE IF t >= len2
        THEN <<(p[1] - b[1]) * (p[1] - b[1]) + (p[2] - b[2]) * (p[2] - b[2]), 1>>
        ELSE <<Cross(a, b, p) * Cross(a, b, p), len2>>

FractionLeq(p, q) == p[1] * q[2] <= q[1] * p[2]

PolygonDistanceSquared(pts, p) ==
    LET ds == {EdgeDistanceSquared(pts[i], NextVertex(pts, i), p) : i \in DOMAIN pts}
    IN  CHOOSE m \in ds : \A o \in ds : FractionLeq(m, o)

is_in_zone_strict(type, bounds, x, y) ==
    IF bounds = NoBounds THEN TRUE
    ELSE IF type = "rectangle"
    THEN bounds[1] < x /\ x < bounds[2] /\ bounds[3] < y /\ y < bounds[4]
    ELSE IF type = "polygon" THEN PolygonSide(bounds, <<x, y>>) > 0
    ELSE IF type = "ellipse" THEN EllipseValueNum(bounds, x, y) < EllipseValueDen(bounds)
    ELSE TRUE

\* is_in_zone(x, y, "stage"); a zone type that is none of the three shapes falls through
\* to the final return True
is_in_zone(type, bounds, x, y) ==
    IF bounds = NoBounds THEN TRUE
    ELSE IF type = "rectangle"
    THEN bounds[1] <= x /\ x <= bounds[2] /\ bounds[3] <= y /\ y <= bounds[4]
    ELSE IF type = "polygon" THEN PolygonSide(bounds, <<x, y>>) >= 0
    ELSE IF type = "ellipse" THEN EllipseValueNum(bounds, x, y) <= EllipseValueDen(bounds)
    ELSE TRUE

\* get_distance_to_edge(x, y); both branches of the ellipse case come to
\* (1 - ellipse_value) * min(wx, wy)
get_distance_to_edge(type, bounds, x, y) ==
    IF bounds = NoBounds THEN [num |-> 1, den |-> 2]
    ELSE IF type = "rectangle"
    THEN [ num |-> Min2(Min2(x - bounds[1], bounds[2] - x),
                        Min2(y - bounds[3], bounds[4] - y)),
           den |-> 1 ]
    ELSE IF type = "polygon"
    THEN [ side |-> IF PolygonSide(bounds, <<x, y>>) > 0 THEN 1 ELSE -1,
           squared |-> PolygonDistanceSquared(bounds, <<x, y>>) ]
    ELSE IF type = "ellipse"
    THEN [ num |-> (EllipseValueDen(bounds) - EllipseValueNum(bounds, x, y))
                      * Min2(bounds[3], bounds[4]),
           den |-> 2 * EllipseValueDen(bounds) ]
    ELSE [num |-> 0, den |-> 1]

\* a coordinate of 1.0, in grid units: a grid unit is 0.05
One == 20

\* the margin of 0.05 between the stage zone and its safe and danger zones
ZoneMargin == 1

\* the assignments of set_rectangle_zone
set_rectangle_zone(left, right, top, bottom) ==
    /\ zone_type' = "rectangle"
    /\ stage_bounds' = <<left, right, top, bottom>>
    /\ safe_zone' = <<left + ZoneMargin, right - ZoneMargin,
                      top + ZoneMargin, bottom - ZoneMargin>>
    /\ danger_zone' = <<left - ZoneMargin, right + ZoneMargin,
                        top - ZoneMargin, bottom + ZoneMargin>>

\* center + factor * (points - center), with exact fractions as coordinates
ScaledPolygon(points, factor) ==
    LET center == << RMean([i \in DOMAIN points |-> <<points[i][1], 1>>]),
                     RMean([i \in DOMAIN points |-> <<points[i][2], 1>>]) >>
    IN  [ i \in DOMAIN points |->
            << RAdd(center[1], RMul(factor, RSub(<<points[i][1], 1>>, center[1]))),
               RAdd(center[2], RMul(factor, RSub(<<points[i][2], 1>>, center[2]))) >> ]

set_polygon_zone(points) ==
    /\ zone_type' = "polygon"
    /\ stage_bounds' = points
    /\ safe_zone' = ScaledPolygon(points, <<9, 10>>)
    /\ danger_zone' = ScaledPolygon(points, <<11, 10>>)

set_elliptical_zone(center_x, center_y, width, height) ==
    /\ zone_type' = "ellipse"
    /\ stage_bounds' = <<center_x, center_y, width, height>>
    /\ safe_zone' = [center |-> <<center_x, center_y>>,
                     width |-> Rat(9 * width, 10), height |-> Rat(9 * height, 10)]
    /\ danger_zone' = [center |-> <<center_x, center_y>>,
                       width |-> Rat(11 * width, 10), height |-> Rat(11 * height, 10)]

SetRectangleZone(left, right, top, bottom) ==
    /\ set_rectangle_zone(left, right, top, bottom)
    /\ UNCHANGED <<zone_query, position_history, auto_calibrated, zone_call>>

SetPolygonZone(points) ==
    /\ set_polygon_zone(points)
    /\ UNCHANGED <<zone_query, position_history, auto_calibrated, zone_call>>

SetEllipticalZone(center_x, center_y, width, height) ==
    /\ set_elliptical_zone(center_x, center_y, width, height)
    /\ UNCHANGED <<zone_query, position_history, auto_calibrated, zone_call>>

\* is_in_zone(x, y) and get_distance_to_edge(x, y) for the same point
QueryZone(x, y) ==
    /\ zone_query' = [op |-> "query", type |-> zone_type, bounds |-> stage_bounds,
                      x |-> x, y |-> y,
                      in_zone |-> is_in_zone(zone_type, stage_bounds, x, y),
                      distance |-> get_distance_to_edge(zone_type, stage_bounds, x, y)]
    /\ UNCHANGED <<zone_type, stage_bounds, safe_zone, danger_zone,
                   position_history, auto_calibrated, zone_call>>

notZn == <<yoloVars, ctVars, pvVars, sfVars, cmVars, ixVars, crVars, cfVars, taVars>>

InitZone ==
    ZnInit /\ YoloIdle /\ CtIdle /\ PvIdle /\ SfIdle /\ CmIdle /\ IxIdle /\ CrInit /\ CfInit
    /\ TaIdle

NextZone ==
    \/ \E r \in Rectangles : SetRectangleZone(r[1], r[2], r[3], r[4]) /\ UNCHANGED notZn
    \/ \E pts \in Polygons : SetPolygonZone(pts) /\ UNCHANGED notZn
    \/ \E e \in Ellipses : SetEllipticalZone(e[1], e[2], e[3], e[4]) /\ UNCHANGED notZn
    \/ \E x \in Grid, y \in Grid : QueryZone(x, y) /\ UNCHANGED notZn

SpecZone == InitZone /\ [][NextZone]_vars

\* the sign of a distance
DistanceSign(dist) ==
    IF "squared" \in DOMAIN dist
    THEN IF dist.squared[1] = 0 THEN 0 ELSE dist.side
    ELSE IF dist.num > 0 THEN 1 ELSE IF dist.num < 0 THEN -1 ELSE 0

\* C30: when both tests have answered for the same point of the same stage zone, whatever
\* its shape, is_in_zone is true exactly when get_distance_to_edge is not negative.
C30_MembershipAgreesWithDistanceSign ==
    zone_query.op = "query" =>
        (zone_query.in_zone <=> DistanceSign(zone_query.distance) >= 0)

\* a point on an edge of a polygon, not one of its vertices: in the zone, at distance 0
C30_Witness ==
    /\ zone_query.op = "query"
    /\ zone_query.type = "polygon"
    /\ zone_query.bounds # NoBounds
    /\ zone_query.in_zone
    /\ DistanceSign(zone_query.distance) = 0
    /\ \A i \in DOMAIN zone_query.bounds : zone_query.bounds[i] # <<zone_query.x, zone_query.y>>

(***************************************************************************)
(* Adaptive calibration of the stage zone (src/zone_config.py).  Positions *)
(* are normalized coordinates between 0 and 1, in grid units of 0.05;      *)
(* min_samples is a positive count.                                        *)
(***************************************************************************)
MaxSamples == 3
MaxCalibrations == 2

\* the margin of 0.1 added around the recorded positions
CalibrationMargin == 2

PositionSamples == { <<0, 0>>, <<One, One>>, <<4, 10>>, <<19, 1>> }

MinSamplesChoices == 1..MaxSamples

SetMax(S) == CHOOSE x \in S : \A y \in S : x >= y

XsOf(history) == {history[i].x : i \in DOMAIN history}
YsOf(history) == {history[i].y : i \in DOMAIN history}

\* add_position_sample(x, y, frame_num)
AddPositionSample(x, y, frame) ==
    /\ position_history' = Append(position_history, [x |-> x, y |-> y, frame |-> frame])
    /\ UNCHANGED <<zone_type, stage_bounds, zone_query, safe_zone, danger_zone,
                   auto_calibrated, zone_call>>

auto_calibrate_zones_strict(min_samples) ==
    IF Len(position_history) <= min_samples
    THEN /\ zone_call' = [op |-> "auto_calibrate_zones", min_samples |-> min_samples,
                          result |-> FALSE, calls |-> zone_call.calls + 1]
         /\ UNCHANGED <<zone_type, stage_bounds, safe_zone, danger_zone, auto_calibrated>>
    ELSE /\ set_rectangle_zone(Max2(0, SetMin(XsOf(position_history)) - CalibrationMargin),
                               Min2(One, SetMax(XsOf(position_history)) + CalibrationMargin),
                               Max2(0, SetMin(YsOf(position_history)) - CalibrationMargin),
                               Min2(One, SetMax(YsOf(position_history)) + CalibrationMargin))
         /\ auto_calibrated' = TRUE
         /\ zone_call' = [op |-> "auto_calibrate_zones", min_samples |-> min_samples,
                          result |-> TRUE, calls |-> zone_call.calls + 1]

\* the body of auto_calibrate_zones(min_samples)
auto_calibrate_zones(min_samples) ==
    IF Len(position_history) < min_samples
    THEN /\ zone_call' = [op |-> "auto_calibrate_zones", min_samples |-> min_samples,
                          result |-> FALSE, calls |-> zone_call.calls + 1]
         /\ UNCHANGED <<zone_type, stage_bounds, safe_zone, danger_zone, auto_calibrated>>
    ELSE /\ set_rectangle_zone(Max2(0, SetMin(XsOf(position_history)) - CalibrationMargin),
                               Min2(One, SetMax(XsOf(position_history)) + CalibrationMargin),
                               Max2(0, SetMin(YsOf(position_history)) - CalibrationMargin),
                               Min2(One, SetMax(YsOf(position_history)) + CalibrationMargin))
         /\ auto_calibrated' = TRUE
         /\ zone_call' = [op |-> "auto_calibrate_zones", min_samples |-> min_samples,
                          result |-> TRUE, calls |-> zone_call.calls + 1]

AutoCalibrateZones(min_samples) ==
    /\ auto_calibrate_zones(min_samples)
    /\ UNCHANGED <<zone_query, position_history>>

InitCalibrate == InitZone

NextCalibrate ==
    \/ \E pos \in PositionSamples :
          /\ Len(position_history) < MaxSamples
          /\ AddPositionSample(pos[1], pos[2], Len(position_history) + 1)
          /\ UNCHANGED notZn
    \/ \E min_samples \in MinSamplesChoices :
          /\ zone_call.calls < MaxCalibrations
          /\ AutoCalibrateZones(min_samples)
          /\ UNCHANGED notZn
    \/ \E pts \in Polygons : SetPolygonZone(pts) /\ UNCHANGED notZn

SpecCalibrate == InitCalibrate /\ [][NextCalibrate]_vars

CalibrationCalled ==
    /\ zone_call'.calls = zone_call.calls + 1
    /\ zone_call'.op = "auto_calibrate_zones"

\* C31: auto_calibrate_zones with fewer than min_samples recorded positions returns False
\* and changes neither the zone type, the stage, safe and danger bounds, the position
\* history nor the auto_calibrated flag; with at least min_samples it returns True and the
\* zone becomes a rectangle that contains every recorded position.
C31_CalibrationNeedsMinSamples ==
    [][ CalibrationCalled =>
          IF Len(position_history) < zone_call'.min_samples
          THEN /\ zone_call'.result = FALSE
               /\ UNCHANGED <<zone_type, stage_bounds, safe_zone, danger_zone,
                              position_history, auto_calibrated>>
          ELSE /\ zone_call'.result = TRUE
               /\ zone_type' = "rectangle"
               /\ auto_calibrated'
               /\ \A i \in DOMAIN position_history :
                     is_in_zone(zone_type', stage_bounds',
                                position_history[i].x, position_history[i].y) ]_vars

\* a calibration from exactly min_samples positions, one of them on the right border of
\* the frame, where the margin is cut off
C31_Witness ==
    /\ zone_call.op = "auto_calibrate_zones"
    /\ zone_call.result = TRUE
    /\ Len(position_history) = zone_call.min_samples
    /\ Len(position_history) >= 2
    /\ \E i \in DOMAIN position_history : position_history[i].x = One
    /\ zone_type = "rectangle"
    /\ stage_bounds[2] = One

(***************************************************************************)
(* Start-up with a zone configuration: FlexibleZoneConfig.load_config      *)
(* (src/zone_config.py) followed by zone queries, and                      *)
(* UnifiedClipper._create_zone_checker (src/clipper_unified_v2.py)         *)
(* followed by the frame loop.                                             *)
(***************************************************************************)
MaxStartupCalls == 2
MaxStartupFrames == 2

ZoneShapes == {"rectangle", "polygon", "ellipse"}

\* the documents load_config may find in the file: one per shape, one of an unknown shape,
\* and one without a zone_type
ZoneFiles ==
    { [zone_type |-> "rectangle", stage_bounds |-> <<1, 5, 2, 4>>, auto_calibrated |-> FALSE],
      [zone_type |-> "rectangle", stage_bounds |-> <<2, 4, 0, 6>>, auto_calibrated |-> TRUE],
      [zone_type |-> "polygon", stage_bounds |-> << <<1, 1>>, <<5, 1>>, <<3, 5>> >>,
       auto_calibrated |-> FALSE],
      [zone_type |-> "ellipse", stage_bounds |-> <<3, 3, 4, 2>>, auto_calibrated |-> FALSE],
      [zone_type |-> "circle", stage_bounds |-> <<3, 3, 2>>, auto_calibrated |-> FALSE],
      [stage_bounds |-> <<1, 5, 2, 4>>] }

\* the body of load_config for the document read from the file
load_config(config) ==
    IF "zone_type" \notin DOMAIN config
    THEN /\ zone_call' = [op |-> "load_config", config |-> config, result |-> Raised,
                          calls |-> zone_call.calls + 1]
         /\ UNCHANGED <<zone_type, stage_bounds, safe_zone, danger_zone, auto_calibrated>>
    ELSE /\ zone_call' = [op |-> "load_config", config |-> config, result |-> None,
                          calls |-> zone_call.calls + 1]
         /\ auto_calibrated' = config.auto_calibrated
         /\ IF config.zone_type = "rectangle"
            THEN set_rectangle_zone(config.stage_bounds[1], config.stage_bounds[2],
                                    config.stage_bounds[3], config.stage_bounds[4])
            ELSE IF config.zone_type = "polygon"
            THEN set_polygon_zone(config.stage_bounds)
            ELSE IF config.zone_type = "ellipse"
            THEN set_elliptical_zone(config.stage_bounds[1], config.stage_bounds[2],
                                     config.stage_bounds[3], config.stage_bounds[4])
            ELSE /\ zone_type' = config.zone_type
                 /\ UNCHANGED <<stage_bounds, safe_zone, danger_zone>>

LoadConfig(config) ==
    /\ load_config(config)
    /\ UNCHANGED <<zone_query, position_history>>

\* the zone_crossing sections of the clipper's configuration
ZoneCrossingConfigs ==
    { [enabled |-> FALSE, type |-> "rectangle"],
      [enabled |-> TRUE, type |-> "rectangle"],
      [enabled |-> TRUE, type |-> "polygon"],
      [enabled |-> TRUE, type |-> "circle"] }

\* _create_zone_checker: the checker it returns, "check_zone" or None
create_zone_checker(zone_config) ==
    IF ~zone_config.enabled THEN None
    ELSE IF zone_config.type = "rectangle" THEN [checker |-> "check_zone"]
    ELSE None

\* process_video up to the frame loop
CreateZoneChecker(zone_config) ==
    /\ zone_call' = [op |-> "_create_zone_checker", config |-> zone_config,
                     result |-> create_zone_checker(zone_config), frames |-> 0,
                     calls |-> zone_call.calls + 1]
    /\ UNCHANGED <<zone_type, stage_bounds, zone_query, safe_zone, danger_zone,
                   position_history, auto_calibrated>>

\* one sampled frame of the loop: detect_frame(frame, zone_checker, ...)
DetectFrame ==
    /\ zone_call.op = "_create_zone_checker"
    /\ zone_call.frames < MaxStartupFrames
    /\ zone_call' = [zone_call EXCEPT !.frames = @ + 1]
    /\ UNCHANGED <<zone_type, stage_bounds, zone_query, safe_zone, danger_zone,
                   position_history, auto_calibrated>>

InitStartup == InitZone

NextStartup ==
    \/ \E config \in ZoneFiles :
          /\ zone_call.calls < MaxStartupCalls
          /\ LoadConfig(config)
          /\ UNCHANGED notZn
    \/ \E x \in Grid, y \in Grid : QueryZone(x, y) /\ UNCHANGED notZn
    \/ \E zone_config \in ZoneCrossingConfigs :
          /\ zone_call.calls < MaxStartupCalls
          /\ CreateZoneChecker(zone_config)
          /\ UNCHANGED notZn
    \/ DetectFrame /\ UNCHANGED notZn

SpecStartup == InitStartup /\ [][NextStartup]_vars

\* C32 (as claimed): a configuration with an unknown zone shape is reported as an error
\* when it is loaded, no zone query is ever answered for a zone of unknown shape, and the
\* frame loop never runs with zone checking enabled for a boundary of unknown shape.
C32_UnknownShapeRejectedAtStartup ==
    /\ ( /\ zone_call.op = "load_config"
         /\ "zone_type" \in DOMAIN zone_call.config
         /\ zone_call.config.zone_type \notin ZoneShapes )
       => zone_call.result = Raised
    /\ zone_query.op = "query" => zone_query.type \in ZoneShapes
    /\ ( /\ zone_call.op = "_create_zone_checker"
         /\ zone_call.config.enabled
         /\ zone_call.config.type \notin ZoneShapes )
       => zone_call.frames = 0

(***************************************************************************)
(* UnifiedClipper._analyze_transitions (src/clipper_unified_v2.py) with    *)
(* the transition rules of ClipperConfig (src/config_loader.py).  The      *)
(* detection history is read one sample per loop iteration; the sample at  *)
(* index i has time i.  Person counts are capped at 2 by the caller.       *)
(***************************************************************************)
MaxHistory == 6
MaxStability == 3

PersonCounts == 0..2

AnyCount == [kind |-> "any"]
Count(n) == [kind |-> "count", n |-> n]
TwoPlus == [kind |-> "2+"]
OneMinus == [kind |-> "1-"]

\* transition_detection.rules: a comedian alone on stage is a segment; and a rule set
\* with "any" whose first matching rule decides
RuleSets ==
    { << [from |-> Count(0), to |-> Count(1), action |-> "start_segment"],
         [from |-> Count(2), to |-> Count(1), action |-> "start_segment"],
         [from |-> Count(1), to |-> TwoPlus, action |-> "end_segment"],
         [from |-> Count(1), to |-> Count(0), action |-> "end_segment"] >>,
      << [from |-> AnyCount, to |-> TwoPlus, action |-> "start_segment"],
         [from |-> Count(2), to |-> OneMinus, action |-> "end_segment"],
         [from |-> AnyCount, to |-> AnyCount, action |-> "start_segment"] >> }

\* TransitionRule.matches
matches(rule, from_count, to_count) ==
    /\ \/ rule.from = AnyCount
       \/ rule.from.kind = "count" /\ from_count = rule.from.n
    /\ \/ rule.to = AnyCount
       \/ rule.to = TwoPlus /\ to_count >= 2
       \/ rule.to = OneMinus /\ to_count <= 1
       \/ rule.to.kind = "count" /\ to_count = rule.to.n

\* the action of the first rule that matches, or "none"
get_transition_action(rules, from_count, to_count) ==
    LET hits == {k \in DOMAIN rules : matches(rules[k], from_count, to_count)}
    IN  IF hits = {} THEN "none" ELSE rules[SetMin(hits)].action

should_start_segment(rules, from_count, to_count) ==
    get_transition_action(rules, from_count, to_count) = "start_segment"

should_end_segment(rules, from_count, to_count) ==
    get_transition_action(rules, from_count, to_count) = "end_segment"

\* the locals before the loop
analysis_start(rules, stability_frames) ==
    [ pc |-> "loop", rules |-> rules, stability_frames |-> stability_frames,
      counts |-> <<>>, segments |-> <<>>, current_start |-> None,
      prev_count |-> 0, stable_count |-> 0, stable_value |-> 0 ]

analyze_sample_unstable(a, person_count) ==
    LET i == Len(a.counts)
        stable_count == IF person_count = a.stable_value THEN a.stable_count + 1 ELSE 1
        process == stable_count >= 1 /\ person_count # a.prev_count
        start == process /\ should_start_segment(a.rules, a.prev_count, person_count)
        end == process /\ ~start /\ should_end_segment(a.rules, a.prev_count, person_count)
    IN  [ a EXCEPT
            !.counts = Append(@, person_count),
            !.stable_value = person_count,
            !.stable_count = stable_count,
            !.current_start = IF start /\ @ = None THEN [time |-> i, i |-> i]
                              ELSE IF end /\ @ # None THEN None
                              ELSE @,
            !.segments = IF end /\ a.current_start # None
                         THEN Append(@, <<a.current_start.time, i, a.current_start.i, i>>)
                         ELSE @,
            !.prev_count = IF process THEN person_count ELSE @ ]

\* one iteration of the loop, for the sample at index Len(a.counts)
analyze_sample(a, person_count) ==
    LET i == Len(a.counts)
        stable_count == IF person_count = a.stable_value THEN a.stable_count + 1 ELSE 1
        process == stable_count >= a.stability_frames /\ person_count # a.prev_count
        start == process /\ should_start_segment(a.rules, a.prev_count, person_count)
        end == process /\ ~start /\ should_end_segment(a.rules, a.prev_count, person_count)
    IN  [ a EXCEPT
            !.counts = Append(@, person_count),
            !.stable_value = person_count,
            !.stable_count = stable_count,
            !.current_start = IF start /\ @ = None THEN [time |-> i, i |-> i]
                              ELSE IF end /\ @ # None THEN None
                              ELSE @,
            !.segments = IF end /\ a.current_start # None
                         THEN Append(@, <<a.current_start.time, i, a.current_start.i, i>>)
                         ELSE @,
            !.prev_count = IF process THEN person_count ELSE @ ]

AnalyzeSample(person_count) ==
    /\ analysis.pc = "loop"
    /\ Len(analysis.counts) < MaxHistory
    /\ analysis' = analyze_sample(analysis, person_count)

\* after the loop: the final segment
FinishAnalysis ==
    /\ analysis.pc = "loop"
    /\ Len(analysis.counts) > 0
    /\ analysis' =
          [ analysis EXCEPT
              !.pc = "done",
              !.segments = IF analysis.current_start # None
                           THEN Append(@, << analysis.current_start.time,
                                             Len(analysis.counts) - 1,
                                             analysis.current_start.i,
                                             Len(analysis.counts) - 1 >>)
                           ELSE @ ]

notTa == <<yoloVars, ctVars, pvVars, sfVars, cmVars, ixVars, crVars, cfVars, znVars>>

InitTransitions ==
    /\ analysis \in {analysis_start(rules, n) : rules \in RuleSets, n \in 1..MaxStability}
    /\ YoloIdle /\ CtIdle /\ PvIdle /\ SfIdle /\ CmIdle /\ IxIdle /\ CrInit /\ CfInit /\ ZnInit

NextTransitions ==
    \/ \E person_count \in PersonCounts : AnalyzeSample(person_count) /\ UNCHANGED notTa
    \/ FinishAnalysis /\ UNCHANGED notTa

SpecTransitions == InitTransitions /\ [][NextTransitions]_vars

\* the number of equal counts at the end of the history
RECURSIVE TrailingRun(_)
TrailingRun(counts) ==
    IF counts = <<>> THEN 0
    ELSE IF Len(counts) = 1 \/ counts[Len(counts)] # counts[Len(counts) - 1] THEN 1
    ELSE 1 + TrailingRun(SubSeq(counts, 1, Len(counts) - 1))

SampleAnalyzed ==
    /\ analysis.pc = "loop" /\ analysis'.pc = "loop"
    /\ Len(analysis'.counts) = Len(analysis.counts) + 1

\* C33: a sample starts or ends a segment only when its count differs from the remembered
\* previous count and has been seen in at least transition_stability_frames consecutive
\* samples; while the run is shorter, segments, the open segment and the remembered
\* count stay as they are; a segment starts only when none is open and ends only when
\* one is open.
C33_TransitionsNeedStableCount ==
    [][ SampleAnalyzed =>
          LET run == TrailingRun(analysis'.counts)
              count == analysis'.counts[Len(analysis'.counts)]
              started == analysis'.current_start # None
                            /\ analysis'.current_start # analysis.current_start
              ended == analysis'.segments # analysis.segments
          IN  /\ (started \/ ended \/ analysis'.current_start # analysis.current_start)
                    => run >= analysis.stability_frames /\ count # analysis.prev_count
              /\ run < analysis.stability_frames
                    => /\ analysis'.segments = analysis.segments
                       /\ analysis'.current_start = analysis.current_start
                       /\ analysis'.prev_count = analysis.prev_count
              /\ started => analysis.current_start = None
              /\ ended => analysis.current_start # None /\ analysis'.current_start = None ]_vars

\* a segment was ended although a run shorter than the stability window interrupted it
C33_Witness ==
    /\ analysis.pc = "loop"
    /\ analysis.stability_frames >= 2
    /\ analysis.segments # <<>>
    /\ \E k \in 2..(Len(analysis.counts) - 1) :
          /\ analysis.segments[1][1] < k - 1 /\ k - 1 < analysis.segments[1][2]
          /\ analysis.counts[k] # analysis.counts[k - 1]
          /\ analysis.counts[k] # analysis.counts[k + 1]

(***************************************************************************)
(* The merge step of SegmentFilter.filter, on the raw segments of the last *)
(* filter call (SpecFilter).                                               *)
(***************************************************************************)

\* the list of kept segments when the loop reaches the raw segment i
KeptBefore(i) == FilterLoop(filter_config, SubSeq(segments, 1, i - 1), 1, <<>>)

\* the raw segment i passes the duration test and is merged into the last kept segment
MergedAt(i) ==
    /\ DurationOk(filter_config, segments[i][2] - segments[i][1])
    /\ MergesWithPrevious(filter_config, KeptBefore(i), segments[i][1])

\* C34 (as claimed): whenever the loop merges a raw segment, the last kept segment keeps
\* its start and its end does not become smaller, and no segment is added or removed.
C34_MergeOnlyExtends ==
    filter_calls >= 1 =>
        \A i \in DOMAIN segments :
            MergedAt(i) =>
                LET before == KeptBefore(i)
                    after == KeptBefore(i + 1)
                IN  /\ Len(after) = Len(before)
                    /\ after[Len(after)][1] = before[Len(before)][1]
                    /\ after[Len(after)][2] >= before[Len(before)][2]

(***************************************************************************)
(* The heuristic state machine and its candidate segment (SpecRules).      *)
(***************************************************************************)

\* C35 (as claimed): after every update_state call, a current state of comedian_performing
\* comes with an open candidate segment.
C35_PerformingHasOpenSegment ==
    current_state = "comedian_performing" => current_segment # NoSegment

(***************************************************************************)
(* The enter and exit events of one chunk (Spec).                          *)
(***************************************************************************)

EventsOf(ev, type, id) ==
    {k \in 1..Len(ev) : ev[k].event_type = type /\ ev[k].person_id = id}

\* C36: in the event list of a chunk every identity has at most one enter and at most one
\* exit event, and every exit event comes after an enter event of the same identity whose
\* timestamp is not later than the exit's.
C36_OneEnterThenOneExit ==
    \A id \in 0..(next_person_id - 1) :
        /\ Cardinality(EventsOf(events, "enter", id)) <= 1
        /\ Cardinality(EventsOf(events, "exit", id)) <= 1
        /\ \A k \in EventsOf(events, "exit", id) :
              \E j \in EventsOf(events, "enter", id) :
                  j < k /\ events[j].timestamp <= events[k].timestamp

\* an identity went dormant after its enter event, was re-activated by a later detection
\* and then left: one enter and one later exit
C36_Witness ==
    \E i \in 1..Len(tracked_persons) :
        LET p == tracked_persons[i]
        IN  /\ p.state = "exited"
            /\ Cardinality(EventsOf(events, "enter", p.person_id)) = 1
            /\ Cardinality(EventsOf(events, "exit", p.person_id)) = 1
            /\ \E j \in EventsOf(events, "enter", p.person_id) :
                  /\ events[j].timestamp < p.first_seen_timestamp
                  /\ \E k \in EventsOf(events, "exit", p.person_id) :
                        events[k].timestamp >= p.first_seen_timestamp


\* C37 (as claimed): when the chunk is finished, every identity with an enter event in the
\* chunk's event list has exactly one exit event in it, whatever state the identity is in.
C37_EveryEnterPairedAtEndOfChunk ==
    pc = "done" =>
        \A id \in 0..(next_person_id - 1) :
            Cardinality(EventsOf(events, "enter", id)) >= 1
                => Cardinality(EventsOf(events, "exit", id)) = 1

(***************************************************************************)
(* Order and overlap of the segments filter returns (SpecFilter).          *)
(***************************************************************************)

\* sorted by start, and every segment ends before the next one starts
SortedDisjoint(segs) ==
    \A k \in 1..(Len(segs) - 1) :
        segs[k][1] <= segs[k + 1][1] /\ segs[k][2] <= segs[k + 1][1]

\* the smallest gap the loop leaves between two kept segments of a sorted disjoint input
MinKeptGap(c) == IF c.merge_close_segments THEN c.merge_threshold ELSE 0

\* C38 (as claimed): for raw segments that are sorted by start and pairwise
\* non-overlapping, the returned segments are sorted by start and pairwise non-overlapping.
C38_OutputSortedDisjoint ==
    (filter_calls >= 1 /\ SortedDisjoint(segments)) => SortedDisjoint(buffered)

\* C38 (amended): for such raw segments the returned segments are sorted by start, and a
\* returned segment reaches into the next one by at most buffer_before_start +
\* buffer_after_end minus the merge threshold (minus 0 when merging is off): they are
\* non-overlapping when the two buffers together do not exceed the merge threshold.
C38_OutputSortedOverlapBounded ==
    (filter_calls >= 1 /\ SortedDisjoint(segments)) =>
        \A k \in 1..(Len(buffered) - 1) :
            /\ buffered[k][1] <= buffered[k + 1][1]
            /\ buffered[k][2] - buffered[k + 1][1]
                  <= filter_config.buffer_before_start + filter_config.buffer_after_end
                        - MinKeptGap(filter_config)

\* two raw segments exactly merge_threshold apart are both kept, and their buffers make
\* the returned segments overlap by the full bound
C38_Witness ==
    /\ filter_calls = 1
    /\ SortedDisjoint(segments)
    /\ Len(segments) >= 2
    /\ filter_config.merge_close_segments
    /\ \E k \in 1..(Len(buffered) - 1) :
          /\ buffered[k][2] > buffered[k + 1][1]
          /\ buffered[k][2] - buffered[k + 1][1]
                = filter_config.buffer_before_start + filter_config.buffer_after_end
                     - filter_config.merge_threshold

(***************************************************************************)
(* The size of the cache directory after save_cache (SpecCache).           *)
(***************************************************************************)

\* C39 (as claimed): when save_cache has returned True, the blobs in the cache directory
\* together do not exceed MAX_CACHE_SIZE_GB.
C39_SizeWithinCeilingAfterSave ==
    (last_call.op = "save_cache" /\ last_call.result = TRUE)
        => TotalSize(cache_files, DOMAIN cache_files) <= MAX_CACHE_SIZE_GB

(***************************************************************************)
(* Queries of the fusion engine (SpecConfidence).  detect_exits and        *)
(* get_person_status obtain the exit confidence by calling                 *)
(* calculate_exit_confidence.                                              *)
(***************************************************************************)

ConfidenceQueried ==
    /\ confidence_call'.calls = confidence_call.calls + 1
    /\ confidence_call'.op \in {"calculate_exit_confidence",
                                "calculate_stage_presence_confidence"}

\* C40 (as claimed): a calculate_exit_confidence or calculate_stage_presence_confidence
\* call leaves every stored exit confidence as it was, and the same call made again right
\* after it, with no signal added, obtains the same exit confidence.
C40_QueriesLeaveExitConfidence ==
    [][ ConfidenceQueried =>
          /\ \A id \in DOMAIN person_states :
                person_states'[id].exit_confidence = person_states[id].exit_confidence
          /\ exit_confidence_of(person_states', confidence_call'.person_id)
                = exit_confidence_of(person_states, confidence_call'.person_id) ]_vars

====
